---- MODULE Spec2Model ----
(***************************************************************************)
(* Model of the astronum captcha (submissions/astronum/captcha/captcha.js) *)
(*                                                                         *)
(*   Spec      the captcha page: Captcha bound to its EventLoop and Ship,  *)
(*             driven by key, mouse and touch events and the timer         *)
(*   SpecLoop  the EventLoop alone, driven through its exposed operations  *)
(*   SpecInput the EventLoop with registered listeners, driven by the      *)
(*             events of the document and the timer                        *)
(*   SpecGenFair  generateSpecialArray, each pass of its loop carried out  *)
(*   SpecGen   generateSpecialArray, the rejection-sampling generator      *)
(*   SpecDefault  the generator called with the default length, on draws   *)
(*             near the example of the README                              *)
(*   SpecShip  the Ship object driven directly through its operations      *)
(*   SpecTurn  the rotation of Ship.update with rotations of any size      *)
(*   SpecDrag  the steering, Captcha.onDrag, applied to the ship           *)
(*   SpecUpdate Ship.update with a displacement and a rotation at once     *)
(*   SpecPose  every operation that places the ship, steering included     *)
(*   SpecSteer the steering with the direction of the target held constant *)
(*                                                                         *)
(* and of the shell game (submissions/shellgame/captcha/captcha.js)         *)
(*                                                                         *)
(*   SpecShell the shell game driven by clicks, its timer and the          *)
(*             animation frames it requests                                *)
(*                                                                         *)
(* Lengths are fixed-point integers: PosScale units per pixel.  Angles are *)
(* whole degrees (the ship only ever turns by TURN_ANGLE from 90).         *)
(***************************************************************************)
EXTENDS Integers, Sequences, FiniteSets, TLC

VARIABLES
    \* generateSpecialArray
    genPc,          \* "idle" | "draw" | "check" | "returned"
    arrayLength,    \* argument of the running call
    maxSum,         \* argument of the running call
    arr,            \* candidate array of the current iteration
    \* Ship
    posX, posY, scale, angle,
    shipLog,        \* the last operation on the ship alone and the pose it began from
    steerLog,       \* steering to a constant direction: the direction and the turns so far
    \* EventLoop
    handlers, keyListeners, mouseListeners, tickListeners,
    nextId, curPos, paused, resumeTimeRemaining,
    \* Captcha
    numbers,        \* the Number objects: value, visibility, still in the document
    done,
    inputs,         \* the three input fields of the equation
    overlay,        \* title and whether the overlay is displayed
    posted,         \* number of "success" messages posted to window.top
    \* history of the last step
    fired,          \* callbacks invoked by the last step, in order
    calls,          \* pause() and resume() calls made by the last step, in order
    tickLog,        \* what the last step started from, and whether it was a tick
    \* history of the run
    regLog,         \* per handler id: repeat flag, invocations, serviced ticks begun
    resumeTicks,    \* ticks begun since the last resume(), -1 after a pause()
    runs,           \* serviced ticks in which a handler ran or a number was hit
    events,         \* number of input events
    evLog,          \* the last step's event and the loop state it began from
    \* the shell game (submissions/shellgame/captcha/captcha.js)
    shell,          \* the variables of its Captcha, and its picks since reset()
    shellLog        \* the last step of the shell game and the state it began from

genVars == <<genPc, arrayLength, maxSum, arr>>
shipVars == <<posX, posY, scale, angle, shipLog, steerLog>>
loopVars == <<handlers, keyListeners, mouseListeners, tickListeners,
              nextId, curPos, paused, resumeTimeRemaining>>
captchaVars == <<numbers, done, inputs, overlay, posted>>
histVars == <<fired, calls, tickLog, regLog, resumeTicks, runs, events, evLog>>
shellVars == <<shell, shellLog>>
vars == <<genPc, arrayLength, maxSum, arr, posX, posY, scale, angle, shipLog,
          steerLog,
          handlers, keyListeners, mouseListeners, tickListeners,
          nextId, curPos, paused, resumeTimeRemaining,
          numbers, done, inputs, overlay, posted,
          fired, calls, tickLog, regLog, resumeTicks, runs, events, evLog,
          shell, shellLog>>

-----------------------------------------------------------------------------
(* Bounds of the model *)

\* largest arrayLength passed to generateSpecialArray
MaxLen == 4
\* largest maxSum passed to generateSpecialArray
MaxSumBound == 8
\* canvas.offsetWidth and canvas.offsetHeight, in pixels
CanvasWidthPx == 6
CanvasHeightPx == 5
\* fixed-point resolution: units per pixel
PosScale == 10
\* largest number of input events (key, mouse and touch) in a run
MaxEvents == 2
\* the same for an EventLoop on its own, calls by its client included
MaxLoopEvents == 4
\* largest number of serviced ticks of an EventLoop on its own in which a
\* handler runs
MaxLoopRuns == 3
\* largest number of serviced ticks in which a handler runs or a number is hit
MaxRuns == 2
\* largest number of input events of an EventLoop with registered listeners
MaxInputEvents == 4
\* largest number of its serviced ticks in which a handler runs
MaxInputRuns == 2

\* largest number of steering ticks towards a constant direction before the
\* first of them that finds the ship aligned
MaxSteerTicks == 95

\* largest number of requested animation frames of the shell game that have
\* not run yet
MaxPendingFrames == 2

-----------------------------------------------------------------------------
(* generateSpecialArray *)

MIN_NUM_ASTEROIDS == 3

\* The values Math.floor(Math.random() * (max - min + 1)) + min can take for
\* Math.random() in [0, 1).
getRandomInt(min, max) ==
    IF max - min + 1 > 0 THEN min .. max
    ELSE IF max - min + 1 = 0 THEN {min}
    ELSE (max + 1) .. min

\* a mutation of the fill loop: one element too few
CandidatesOneShort(n, m) ==
    [1 .. (n - 1) -> getRandomInt(1, m - 1)]

\* for (let i = 0; i < arrayLength; i++) arr.push(getRandomInt(1, maxSum - 1))
Candidates(n, m) ==
    [1 .. n -> getRandomInt(1, m - 1)]

\* The innermost loop of the sum check: TRUE iff it runs to the end of the
\* array without breaking.
RECURSIVE SumLoopK(_, _, _, _, _)
SumLoopK(a, i, j, k, m) ==
    IF k > Len(a) THEN TRUE
    ELSE IF a[i] + a[j] + a[k] >= m THEN FALSE
    ELSE SumLoopK(a, i, j, k + 1, m)

RECURSIVE SumLoopJ(_, _, _, _)
SumLoopJ(a, i, j, m) ==
    IF j > Len(a) THEN TRUE
    ELSE IF ~SumLoopK(a, i, j, j + 1, m) THEN FALSE
    ELSE SumLoopJ(a, i, j + 1, m)

RECURSIVE SumLoopI(_, _, _)
SumLoopI(a, i, m) ==
    IF i > Len(a) THEN TRUE
    ELSE IF ~SumLoopJ(a, i, i + 1, m) THEN FALSE
    ELSE SumLoopI(a, i + 1, m)

\* a mutation of the sum check: > instead of >=
RECURSIVE SumLoopKStrict(_, _, _, _, _)
SumLoopKStrict(a, i, j, k, m) ==
    IF k > Len(a) THEN TRUE
    ELSE IF a[i] + a[j] + a[k] > m THEN FALSE
    ELSE SumLoopKStrict(a, i, j, k + 1, m)

SumOkStrict(a, m) ==
    \A i \in 1 .. Len(a) : \A j \in (i + 1) .. Len(a) :
        SumLoopKStrict(a, i, j, j + 1, m)

\* a mutation of the sum check: the whole array is summed, not its triples
RECURSIVE SumOkTotal(_, _)
SumOkTotal(a, m) ==
    IF a = <<>> THEN m > 0
    ELSE SumOkTotal(Tail(a), m - Head(a))

\* the value of `ok` after the first triple loop
SumOk(a, m) ==
    SumLoopI(a, 1, m)

IsSumTriple(a, b, c) ==
    (a + b = c) \/ (a + c = b) \/ (b + c = a)

RECURSIVE CountLoopK(_, _, _, _)
CountLoopK(a, i, j, k) ==
    IF k > Len(a) THEN 0
    ELSE (IF IsSumTriple(a[i], a[j], a[k]) THEN 1 ELSE 0)
         + CountLoopK(a, i, j, k + 1)

RECURSIVE CountLoopJ(_, _, _)
CountLoopJ(a, i, j) ==
    IF j > Len(a) THEN 0
    ELSE CountLoopK(a, i, j, j + 1) + CountLoopJ(a, i, j + 1)

RECURSIVE CountLoopI(_, _)
CountLoopI(a, i) ==
    IF i > Len(a) THEN 0
    ELSE CountLoopJ(a, i, i + 1) + CountLoopI(a, i + 1)

\* the value of `count` after the second triple loop
CountTriples(a) ==
    CountLoopI(a, 1)

\* a mutation of the acceptance test: count === 2 instead of count === 1
CountAcceptsTwo(a) ==
    CountTriples(a) = 2

\* a mutation of the acceptance test: count >= 1 instead of count === 1
CountAcceptsAtLeastOne(a) ==
    CountTriples(a) >= 1

CountAccepts(a) ==
    CountTriples(a) = 1

GenInit ==
    /\ genPc = "idle"
    /\ arrayLength = MIN_NUM_ASTEROIDS
    /\ maxSum = 1
    /\ arr = <<>>

\* generateSpecialArray(n, m) is entered
GenCall(n, m) ==
    /\ genPc \in {"idle", "returned"}
    /\ genPc' = "draw"
    /\ arrayLength' = n
    /\ maxSum' = m
    /\ arr' = <<>>

\* one pass of while (true): build a candidate array
GenDraw ==
    /\ genPc = "draw"
    /\ arr' \in Candidates(arrayLength, maxSum)
    /\ genPc' = "check"
    /\ UNCHANGED <<arrayLength, maxSum>>

\* if (!ok) continue;  (arr is scoped to one pass of the loop)
GenRejectSum ==
    /\ genPc = "check"
    /\ ~SumOk(arr, maxSum)
    /\ genPc' = "draw"
    /\ arr' = <<>>
    /\ UNCHANGED <<arrayLength, maxSum>>

\* count !== 1: fall through to the next pass of while (true)
GenRejectCount ==
    /\ genPc = "check"
    /\ SumOk(arr, maxSum)
    /\ ~CountAccepts(arr)
    /\ genPc' = "draw"
    /\ arr' = <<>>
    /\ UNCHANGED <<arrayLength, maxSum>>

\* if (count === 1) return arr;
GenReturn ==
    /\ genPc = "check"
    /\ SumOk(arr, maxSum)
    /\ CountAccepts(arr)
    /\ genPc' = "returned"
    /\ UNCHANGED <<arrayLength, maxSum, arr>>

GenStart ==
    \E n \in MIN_NUM_ASTEROIDS .. MaxLen : \E m \in 1 .. MaxSumBound : GenCall(n, m)

-----------------------------------------------------------------------------
(* Ship *)

TURN_ANGLE == 2
THRUST_DISTANCE == 1
INITIAL_ANGLE == 90

\* canvas.offsetWidth, canvas.offsetHeight
CanvasWidth == CanvasWidthPx * PosScale
CanvasHeight == CanvasHeightPx * PosScale

Min(a, b) == IF a < b THEN a ELSE b

Abs(a) == IF a < 0 THEN -a ELSE a

\* n / d rounded to the nearest integer, halves away from zero (d > 0)
RoundDiv(n, d) ==
    IF n >= 0 THEN (2 * n + d) \div (2 * d)
    ELSE -((2 * (-n) + d) \div (2 * d))

\* Ship dimensions: 10% and 14% of the smaller canvas side
width == RoundDiv(Min(CanvasWidth, CanvasHeight) * 10, 100)
height == RoundDiv(Min(CanvasWidth, CanvasHeight) * 14, 100)

\* center of the canvas, passed to Ship as (x, y)
centerX == CanvasWidth \div 2
centerY == CanvasHeight \div 2

\* 1000 * cos(d degrees) for d = 0, 1, ..., 90
CosTable ==
    <<1000, 1000, 999, 999, 998, 996, 995, 993, 990, 988, 985, 982, 978,
      974, 970, 966, 961, 956, 951, 946, 940, 934, 927, 921, 914, 906,
      899, 891, 883, 875, 866, 857, 848, 839, 829, 819, 809, 799, 788,
      777, 766, 755, 743, 731, 719, 707, 695, 682, 669, 656, 643, 629,
      616, 602, 588, 574, 559, 545, 530, 515, 500, 485, 469, 454, 438,
      423, 407, 391, 375, 358, 342, 326, 309, 292, 276, 259, 242, 225,
      208, 191, 174, 156, 139, 122, 105, 87, 70, 52, 35, 17, 0>>

\* 1000 * Math.cos(deg * Math.PI / 180) for a whole number of degrees
Cos1000(deg) ==
    LET r == deg % 360 IN
    IF r <= 90 THEN CosTable[r + 1]
    ELSE IF r <= 180 THEN -CosTable[(180 - r) + 1]
    ELSE IF r <= 270 THEN -CosTable[(r - 180) + 1]
    ELSE CosTable[(360 - r) + 1]

\* 1000 * Math.sin(deg * Math.PI / 180)
Sin1000(deg) ==
    Cos1000(deg + 270)

\* a mutation of the boundary test: a position on an edge passes
CollideBeyond(px, py) ==
    \/ px < 0
    \/ px + height > CanvasWidth
    \/ py < 0
    \/ py + height > CanvasHeight

\* the boundary test of update()
Collide(px, py) ==
    \/ px <= 0
    \/ px + height >= CanvasWidth
    \/ py <= 0
    \/ py + height >= CanvasHeight

\* a mutation of the normalisation: the rotation is committed unnormalised
ClampAngleNone(a) ==
    a

\* if (angle > 360) angle %= 360; else if (angle < 0) angle += 360;
ClampAngle(a) ==
    IF a > 360 THEN a % 360
    ELSE IF a < 0 THEN a + 360
    ELSE a

\* a mutation of update: a rejected update still commits its rotation
updateTurnsAnyway(s, xDelta, yDelta, degDelta) ==
    [s EXCEPT !.angle = ClampAngle(s.angle + degDelta),
              !.posX = IF Collide(s.posX + xDelta, s.posY + yDelta)
                       THEN s.posX ELSE s.posX + xDelta,
              !.posY = IF Collide(s.posX + xDelta, s.posY + yDelta)
                       THEN s.posY ELSE s.posY + yDelta]

\* a mutation of update: the boundary test is missing
updateUnchecked(s, xDelta, yDelta, degDelta) ==
    [s EXCEPT !.angle = ClampAngle(s.angle + degDelta),
              !.posX = s.posX + xDelta,
              !.posY = s.posY + yDelta]

\* Ship.update(xDelta, yDelta, degDelta) on the pose s
update(s, xDelta, yDelta, degDelta) ==
    IF Collide(s.posX + xDelta, s.posY + yDelta)
    THEN s
    ELSE [s EXCEPT !.angle = ClampAngle(s.angle + degDelta),
                   !.posX = s.posX + xDelta,
                   !.posY = s.posY + yDelta]

\* displacement of move(distance) along one axis, distance in pixels
MoveDelta(trig1000, distance) ==
    RoundDiv(trig1000 * distance * PosScale, 1000)

\* Ship.move(distance)
move(s, distance) ==
    update(s, MoveDelta(Cos1000(s.angle), distance),
              MoveDelta(Sin1000(s.angle), distance), 0)

\* the ship as constructed by Ship(document, canvas, center.x, center.y)
InitialPose ==
    [posX |-> centerX - (height \div 2),
     posY |-> centerY - (width \div 2),
     scale |-> 1,
     angle |-> INITIAL_ANGLE]

\* Ship.reset()
reset(s) ==
    update([s EXCEPT !.posX = centerX - (width \div 2),
                     !.posY = centerY - (height \div 2),
                     !.scale = 1,
                     !.angle = INITIAL_ANGLE], 0, 0, 0)

\* Ship.forward()
forward(s) ==
    move(s, -THRUST_DISTANCE)

\* Ship.backward(): the body is commented out
backward(s) ==
    s

\* Ship.rotateLeft()
rotateLeft(s) ==
    update(s, 0, 0, -TURN_ANGLE)

\* Ship.rotateRight()
rotateRight(s) ==
    update(s, 0, 0, TURN_ANGLE)

\* Ship.getOrient()
getOrient(s) ==
    s.angle

Pose ==
    [posX |-> posX, posY |-> posY, scale |-> scale, angle |-> angle]

SetPose(s) ==
    /\ posX' = s.posX
    /\ posY' = s.posY
    /\ scale' = s.scale
    /\ angle' = s.angle

\* the operation op is applied to the current pose; deg is the rotation it
\* asks for and pos the point it steers to, if any
ShipLogOf(op, deg, pos) ==
    [op |-> op, deg |-> deg, pos |-> pos,
     posX |-> posX, posY |-> posY, angle |-> angle]

\* no steering to a constant direction is under way
NoSteer ==
    [steering |-> FALSE, target |-> 0, ticks |-> 0, turns |-> {},
     aligned |-> FALSE, turnedAfter |-> FALSE]

ShipInit ==
    /\ posX = InitialPose.posX
    /\ posY = InitialPose.posY
    /\ scale = InitialPose.scale
    /\ angle = InitialPose.angle
    /\ shipLog = [op |-> "new", deg |-> 0, pos |-> <<>>,
                  posX |-> InitialPose.posX, posY |-> InitialPose.posY,
                  angle |-> InitialPose.angle]
    /\ steerLog = NoSteer

-----------------------------------------------------------------------------
(* EventLoop.  The operations are functions on a record w holding the       *)
(* fields of the program state, so that a callback can run in the middle of *)
(* run().                                                                   *)

EVENT_INTERVAL == 5
RESUME_INTERVAL == 100

\* EventTypes
KEY == 1
MOUSE == 2
TOUCH == 3

\* KeyCodes
LEFT == 37
UP == 38
RIGHT == 39
DOWN == 40
KeyW == 87
KeyA == 65
KeyS == 83
KeyD == 68

\* a null listener id; ids handed out by add() start at 1
NullId == 0

\* curPos = null; a Point is <<x, y>>
NullPos == <<>>

\* new EventHandler(id, type, code, fn, repeat)
EventHandler(id, type, code, fn, repeat) ==
    [id |-> id, type |-> type, code |-> code, fn |-> fn, repeat |-> repeat]

\* a mutation of add: the handler is put in front of the list
addInFront(w, type, code, fn, repeat) ==
    [w EXCEPT !.nextId = w.nextId + 1,
              !.handlers = <<EventHandler(w.nextId + 1, type, code, fn, repeat)>>
                               \o w.handlers,
              !.regLog = Append(w.regLog, [repeat |-> repeat, invoked |-> 0, ticks |-> 0])]

\* EventLoop.add: the id it returns is w.nextId + 1
add(w, type, code, fn, repeat) ==
    [w EXCEPT !.nextId = w.nextId + 1,
              !.handlers = Append(w.handlers,
                                  EventHandler(w.nextId + 1, type, code, fn, repeat)),
              !.regLog = Append(w.regLog, [repeat |-> repeat, invoked |-> 0, ticks |-> 0])]

\* index of the first element of seq whose id is id, 0 if there is none
RECURSIVE FirstWithId(_, _, _)
FirstWithId(seq, id, idx) ==
    IF idx > Len(seq) THEN 0
    ELSE IF seq[idx].id = id THEN idx
    ELSE FirstWithId(seq, id, idx + 1)

\* handlers.splice(idx, 1)
Splice(seq, idx) ==
    [i \in 1 .. (Len(seq) - 1) |-> IF i < idx THEN seq[i] ELSE seq[i + 1]]

\* listeners[idx].id = null for the first listener holding id
ClearId(listeners, id) ==
    LET idx == FirstWithId(listeners, id, 1) IN
    IF idx = 0 THEN listeners
    ELSE [listeners EXCEPT ![idx].id = NullId]

\* EventLoop.remove
remove(w, id) ==
    LET idx == FirstWithId(w.handlers, id, 1) IN
    [w EXCEPT !.handlers = IF idx = 0 THEN w.handlers ELSE Splice(w.handlers, idx),
              !.keyListeners = ClearId(w.keyListeners, id),
              !.mouseListeners = ClearId(w.mouseListeners, id)]

\* a mutation of pause: the countdown is left as it is
pauseKeepsCountdown(w) ==
    [w EXCEPT !.paused = TRUE,
              !.calls = Append(w.calls, "pause")]

\* EventLoop.pause
pause(w) ==
    [w EXCEPT !.paused = TRUE,
              !.resumeTimeRemaining = 0,
              !.calls = Append(w.calls, "pause")]

\* a mutation of resume: no debounce window
resumeAtOnce(w) ==
    [w EXCEPT !.resumeTimeRemaining = 0,
              !.paused = FALSE,
              !.calls = Append(w.calls, "resume")]

\* EventLoop.resume
resume(w) ==
    [w EXCEPT !.resumeTimeRemaining = RESUME_INTERVAL,
              !.paused = FALSE,
              !.calls = Append(w.calls, "resume")]

\* EventLoop.addKeyEvent
addKeyEvent(w, code, fn, repeat) ==
    [w EXCEPT !.keyListeners = Append(w.keyListeners,
                                      EventHandler(NullId, KEY, code, fn, repeat))]

\* EventLoop.addMouseEvent
addMouseEvent(w, fn, repeat) ==
    [w EXCEPT !.mouseListeners = Append(w.mouseListeners,
                                        EventHandler(NullId, MOUSE, NullPos, fn, repeat))]

\* EventLoop.addTouchEvent
addTouchEvent(w, fn, repeat) ==
    [w EXCEPT !.mouseListeners = Append(w.mouseListeners,
                                        EventHandler(NullId, TOUCH, NullPos, fn, repeat))]

\* EventLoop.addTickEvent
addTickEvent(w, fn) ==
    [w EXCEPT !.tickListeners = Append(w.tickListeners, fn)]

\* the loop of onKeyDown over keyListeners, from index idx on
RECURSIVE KeyDownLoop(_, _, _)
KeyDownLoop(w, key, idx) ==
    IF idx > Len(w.keyListeners) THEN w
    ELSE LET listener == w.keyListeners[idx] IN
         IF listener.type = KEY /\ listener.code = key /\ listener.id = NullId
         THEN LET w1 == add(w, listener.type, listener.code, listener.fn, listener.repeat)
              IN  KeyDownLoop([w1 EXCEPT !.keyListeners[idx].id = w.nextId + 1],
                              key, idx + 1)
         ELSE KeyDownLoop(w, key, idx + 1)

\* a mutation of onKeyDown: the listeners are armed whether armed or not
onKeyDownRearms(w, key) ==
    KeyDownLoop([w EXCEPT !.keyListeners =
                    [i \in 1 .. Len(w.keyListeners) |->
                        [w.keyListeners[i] EXCEPT !.id = NullId]]],
                key, 1)

\* EventLoop.onKeyDown
onKeyDown(w, key) ==
    KeyDownLoop(w, key, 1)

\* index of the first KEY handler with this code, 0 if there is none
RECURSIVE FirstKeyHandler(_, _, _)
FirstKeyHandler(hs, key, idx) ==
    IF idx > Len(hs) THEN 0
    ELSE IF hs[idx].type = KEY /\ hs[idx].code = key THEN idx
    ELSE FirstKeyHandler(hs, key, idx + 1)

\* EventLoop.onKeyUp: removes the first matching handler and returns
onKeyUp(w, key) ==
    LET idx == FirstKeyHandler(w.handlers, key, 1) IN
    IF idx = 0 THEN w ELSE remove(w, w.handlers[idx].id)

\* canvas.offsetLeft, canvas.offsetTop: where the canvas sits in the page
offsetLeft == 2 * PosScale
offsetTop == PosScale

\* canvas.getBoundingClientRect() (the page is not scrolled)
boundaries ==
    [left |-> offsetLeft, right |-> offsetLeft + CanvasWidth,
     top |-> offsetTop, bottom |-> offsetTop + CanvasHeight]

\* A mouse event is [mouse |-> TRUE, client |-> point, touches |-> <<>>];
\* a touch event is [mouse |-> FALSE, client |-> NullPos, touches |-> points].
MouseEvent(p) == [mouse |-> TRUE, client |-> p, touches |-> <<>>]
TouchEvent(ps) == [mouse |-> FALSE, client |-> NullPos, touches |-> ps]

\* getCoordinates(ev)
getCoordinates(ev) ==
    IF ev.mouse THEN ev.client
    ELSE IF Len(ev.touches) = 1 THEN ev.touches[1]
    ELSE NullPos

\* isWithin(p, rect)
isWithin(p, rect) ==
    IF p = NullPos THEN FALSE
    ELSE /\ p[1] >= rect.left
         /\ p[1] <= rect.right
         /\ p[2] >= rect.top
         /\ p[2] <= rect.bottom

\* the loop of onTouchStart over mouseListeners, from index idx on
RECURSIVE TouchStartLoop(_, _)
TouchStartLoop(w, idx) ==
    IF idx > Len(w.mouseListeners) THEN w
    ELSE LET listener == w.mouseListeners[idx] IN
         IF (listener.type = MOUSE \/ listener.type = TOUCH) /\ listener.id = NullId
         THEN LET w1 == add(w, listener.type, w.curPos, listener.fn, listener.repeat)
              IN  TouchStartLoop([w1 EXCEPT !.mouseListeners[idx].id = w.nextId + 1],
                                 idx + 1)
         ELSE TouchStartLoop(w, idx + 1)

\* a mutation of onTouchStart: the press point is not tested against the canvas
onTouchStartAnywhere(w, ev) ==
    LET clientPos == getCoordinates(ev) IN
    IF clientPos = NullPos THEN w
    ELSE TouchStartLoop([w EXCEPT !.curPos = clientPos], 1)

\* EventLoop.onTouchStart (also the mousedown listener)
onTouchStart(w, ev) ==
    LET clientPos == getCoordinates(ev) IN
    IF clientPos = NullPos THEN w
    ELSE IF isWithin(clientPos, boundaries)
         THEN TouchStartLoop([w EXCEPT !.curPos = clientPos], 1)
         ELSE w

\* a mutation of onTouchMove: a move is tracked whether a drag began or not
onTouchMoveUntracked(w, ev) ==
    LET clientPos == getCoordinates(ev) IN
    IF isWithin(clientPos, boundaries)
    THEN [w EXCEPT !.curPos = clientPos]
    ELSE w

\* EventLoop.onTouchMove (also the mousemove listener)
onTouchMove(w, ev) ==
    IF w.curPos = NullPos THEN w
    ELSE LET clientPos == getCoordinates(ev) IN
         IF isWithin(clientPos, boundaries)
         THEN [w EXCEPT !.curPos = clientPos]
         ELSE w

\* the loop of onTouchEnd over the copy newHandlers, from index idx on
RECURSIVE TouchEndLoop(_, _, _)
TouchEndLoop(w, newHandlers, idx) ==
    IF idx > Len(newHandlers) THEN w
    ELSE LET handler == newHandlers[idx] IN
         IF handler.type = TOUCH \/ handler.type = MOUSE
         THEN TouchEndLoop(remove(w, handler.id), newHandlers, idx + 1)
         ELSE TouchEndLoop(w, newHandlers, idx + 1)

\* a mutation of onTouchEnd: the registrations are kept
onTouchEndKeepsHandlers(w) ==
    [w EXCEPT !.curPos = NullPos]

\* a mutation of onTouchEnd: the tracked position is kept
onTouchEndKeepsPos(w) ==
    TouchEndLoop(w, w.handlers, 1)

\* EventLoop.onTouchEnd (also the mouseup listener)
onTouchEnd(w) ==
    TouchEndLoop([w EXCEPT !.curPos = NullPos], w.handlers, 1)

-----------------------------------------------------------------------------
(* CaptchaEquation.  An input field holds a string of decimal digits, the   *)
(* empty string when it is blank.                                           *)

\* value.toString() for a positive integer
RECURSIVE toString(_)
toString(v) ==
    IF v < 10 THEN <<v>> ELSE Append(toString(v \div 10), v % 10)

\* parseInt(str, 10) for a string of digits
RECURSIVE parseInt(_)
parseInt(str) ==
    IF Len(str) = 1 THEN str[1]
    ELSE 10 * parseInt(SubSeq(str, 1, Len(str) - 1)) + str[Len(str)]

\* index of the first blank input from i on, 0 if all are filled
RECURSIVE FirstBlank(_, _)
FirstBlank(eq, i) ==
    IF i > Len(eq) THEN 0
    ELSE IF eq[i] = <<>> THEN i
    ELSE FirstBlank(eq, i + 1)

\* CaptchaEquation.reset
eqReset(eq) ==
    [i \in 1 .. Len(eq) |-> <<>>]

\* CaptchaEquation.addInput
addInput(eq, value) ==
    LET i == FirstBlank(eq, 1) IN
    IF i = 0 THEN eq ELSE [eq EXCEPT ![i] = toString(value)]

\* a mutation of solved: the sum may be any of the three inputs
solvedAnyOrder(eq) ==
    IF eq[3] = <<>> THEN FALSE
    ELSE \/ parseInt(eq[1]) + parseInt(eq[2]) = parseInt(eq[3])
         \/ parseInt(eq[1]) + parseInt(eq[3]) = parseInt(eq[2])
         \/ parseInt(eq[2]) + parseInt(eq[3]) = parseInt(eq[1])

\* CaptchaEquation.solved: loperand, roperand and sum are inputs 1, 2 and 3
solved(eq) ==
    IF eq[3] = <<>> THEN FALSE
    ELSE parseInt(eq[1]) + parseInt(eq[2]) = parseInt(eq[3])

\* CaptchaEquation.failed
failed(eq) ==
    IF eq[3] = <<>> THEN FALSE
    ELSE parseInt(eq[1]) + parseInt(eq[2]) # parseInt(eq[3])

-----------------------------------------------------------------------------
(* Captcha *)

MAX_SUM == 100

\* numNumbers, for asteroidCount=4 in the query string
numNumbers == 4

\* Number(document, canvas, x, y, value): hidden, and appended to the canvas
NewNumber(value) ==
    [value |-> value, visible |-> FALSE, attached |-> TRUE]

\* draws of the fill loop of generateSpecialArray(numNumbers, MAX_SUM) that the
\* model follows
SampleArrays ==
    {<<1, 1, 2, 4>>, <<4, 2, 1, 1>>, <<1, 1, 1, 1>>, <<60, 30, 20, 10>>}

\* the arrays generateSpecialArray(numNumbers, MAX_SUM) returns on these draws
TokenArrays ==
    {a \in SampleArrays :
        a \in Candidates(numNumbers, MAX_SUM) /\ SumOk(a, MAX_SUM) /\ CountAccepts(a)}

\* Captcha.refreshNumbers, values being the array the generator returned
refreshNumbers(w, values) ==
    [w EXCEPT !.numbers = [i \in 1 .. Len(values) |-> NewNumber(values[i])]]

\* Captcha.onSuccess
onSuccess(w) ==
    LET w1 == pause([w EXCEPT !.done = TRUE,
                              !.overlay = [title |-> "Success", shown |-> TRUE]])
    IN  [w1 EXCEPT !.posted = w.posted + 1]

\* Captcha.onFailed
onFailed(w, values) ==
    LET w1 == refreshNumbers(reset(pause(w)), values)
    IN  [w1 EXCEPT !.overlay = [title |-> "Try Again", shown |-> TRUE]]

\* Captcha.onCollision with the number at index i
onCollision(w, i, values) ==
    LET visible == w.numbers[i].visible
        w1 == [w EXCEPT !.numbers[i].attached = FALSE,
                        !.inputs = IF visible
                                   THEN addInput(w.inputs, w.numbers[i].value)
                                   ELSE w.inputs]
    IN  IF solved(w1.inputs) THEN onSuccess(w1)
        ELSE IF failed(w1.inputs) THEN onFailed(w1, values)
        ELSE w1

\* n.show() for every number
ShowAll(ns) ==
    [i \in 1 .. Len(ns) |-> [ns[i] EXCEPT !.visible = TRUE]]

\* a mutation of onTouch: a failed equation is not reset
onTouchKeepsEquation(w, ev) ==
    IF w.done THEN w
    ELSE LET pos == getCoordinates(ev) IN
         IF ~isWithin(pos, boundaries)
         THEN LET w1 == pause(w)
              IN  [w1 EXCEPT !.overlay = [title |-> "Paused", shown |-> TRUE]]
         ELSE LET w1 == [w EXCEPT !.numbers = ShowAll(w.numbers),
                                  !.overlay = [w.overlay EXCEPT !.shown = FALSE]]
              IN  resume(w1)

\* a mutation of onTouch: the test of `done` is missing
onTouchWhenDone(w, ev) ==
    LET pos == getCoordinates(ev) IN
    IF ~isWithin(pos, boundaries)
    THEN LET w1 == pause(w)
         IN  [w1 EXCEPT !.overlay = [title |-> "Paused", shown |-> TRUE]]
    ELSE LET w1 == [w EXCEPT !.inputs = IF failed(w.inputs)
                                        THEN eqReset(w.inputs)
                                        ELSE w.inputs,
                             !.numbers = ShowAll(w.numbers),
                             !.overlay = [w.overlay EXCEPT !.shown = FALSE]]
         IN  resume(w1)

\* Captcha.onTouch (the document's touchstart and mousedown listener)
onTouch(w, ev) ==
    IF w.done THEN w
    ELSE LET pos == getCoordinates(ev) IN
         IF ~isWithin(pos, boundaries)
         THEN LET w1 == pause(w)
              IN  [w1 EXCEPT !.overlay = [title |-> "Paused", shown |-> TRUE]]
         ELSE LET w1 == [w EXCEPT !.inputs = IF failed(w.inputs)
                                             THEN eqReset(w.inputs)
                                             ELSE w.inputs,
                                  !.numbers = ShowAll(w.numbers),
                                  !.overlay = [w.overlay EXCEPT !.shown = FALSE]]
              IN  resume(w1)

\* Captcha.onKeyPress
onKeyPress(w, code) ==
    IF code = UP \/ code = KeyW THEN forward(w)
    ELSE IF code = DOWN \/ code = KeyS THEN backward(w)
    ELSE IF code = LEFT \/ code = KeyA THEN rotateLeft(w)
    ELSE IF code = RIGHT \/ code = KeyD THEN rotateRight(w)
    ELSE w

\* Ship.getFront, in half units: <<2 * tipX, 2 * tipY>>
getFront(s) ==
    <<2 * s.posX + width - RoundDiv(width * Cos1000(s.angle), 1000),
      2 * s.posY + height - RoundDiv(width * Sin1000(s.angle), 1000)>>

\* the largest d in lo .. hi with ay * cos d - ax * sin d >= 0 (lo is one)
RECURSIVE FloorDeg(_, _, _, _)
FloorDeg(ay, ax, lo, hi) ==
    IF lo = hi THEN lo
    ELSE LET mid == (lo + hi + 1) \div 2 IN
         IF ay * Cos1000(mid) - ax * Sin1000(mid) >= 0
         THEN FloorDeg(ay, ax, mid, hi)
         ELSE FloorDeg(ay, ax, lo, mid - 1)

\* atan2(ay, ax) in degrees for ax, ay >= 0, to the nearest whole degree
AtanQuadrant(ay, ax) ==
    LET d == FloorDeg(ay, ax, 0, 90)
        Dot(e) == ax * Cos1000(e) + ay * Sin1000(e)
    IN  IF d < 90 /\ Dot(d + 1) > Dot(d) THEN d + 1 ELSE d

\* Math.atan2(dy, dx) * 180 / Math.PI, to the nearest whole degree
Atan2Deg(dy, dx) ==
    IF dx = 0 /\ dy = 0 THEN 0
    ELSE LET q == AtanQuadrant(Abs(dy), Abs(dx)) IN
         IF dx >= 0 /\ dy >= 0 THEN q
         ELSE IF dx < 0 /\ dy >= 0 THEN 180 - q
         ELSE IF dx < 0 THEN q - 180
         ELSE -q

\* targetDeg %= 360 (the sign of the dividend is kept); if (targetDeg < 0) targetDeg += 360
NormalizeDeg(d) ==
    LET r == IF d >= 0 THEN d % 360 ELSE -((-d) % 360)
    IN  IF r < 0 THEN r + 360 ELSE r

\* delta clamped to the shortest turn
FoldDelta(d) ==
    LET d1 == IF d > 180 THEN d - 360 ELSE d
    IN  IF d1 <= -180 THEN d1 + 360 ELSE d1

\* a mutation of onDrag: no return after the rotation
onDragNoReturn(w, pos) ==
    LET sourcePos == getFront(w)
        dx == 2 * (pos[1] - offsetLeft) - sourcePos[1]
        dy == 2 * (pos[2] - offsetTop) - sourcePos[2]
        targetDeg == NormalizeDeg(Atan2Deg(dy, dx))
        delta == FoldDelta(targetDeg - getOrient(w))
        w1 == IF Abs(delta) < 180 - TURN_ANGLE
              THEN IF delta < 0 THEN rotateRight(w) ELSE rotateLeft(w)
              ELSE w
    IN  IF dx + dy >= 0 /\ dx + dy < 2 * PosScale * THRUST_DISTANCE * THRUST_DISTANCE
        THEN w1
        ELSE forward(w1)

\* a mutation of the steering: the turns are exchanged
SteerToReversed(w, targetDeg, sum) ==
    LET delta == FoldDelta(targetDeg - getOrient(w))
    IN  IF Abs(delta) < 180 - TURN_ANGLE
        THEN IF delta < 0 THEN rotateLeft(w) ELSE rotateRight(w)
        ELSE IF sum >= 0 /\ sum < 2 * PosScale * THRUST_DISTANCE * THRUST_DISTANCE
             THEN w
             ELSE forward(w)

\* Captcha.onDrag from the target direction on; sum is dx + dy in half units
SteerTo(w, targetDeg, sum) ==
    LET delta == FoldDelta(targetDeg - getOrient(w))
    IN  IF Abs(delta) < 180 - TURN_ANGLE
        THEN IF delta < 0 THEN rotateRight(w) ELSE rotateLeft(w)
        ELSE \* Math.sqrt(dx + dy) < THRUST_DISTANCE; the root of a negative
             \* number is NaN, which is not below the thrust distance
             IF sum >= 0 /\ sum < 2 * PosScale * THRUST_DISTANCE * THRUST_DISTANCE
             THEN w
             ELSE forward(w)

\* Captcha.onDrag(_, curPos); dx and dy are in half units
onDrag(w, pos) ==
    LET sourcePos == getFront(w)
        dx == 2 * (pos[1] - offsetLeft) - sourcePos[1]
        dy == 2 * (pos[2] - offsetTop) - sourcePos[2]
    IN  SteerTo(w, NormalizeDeg(Atan2Deg(dy, dx)), dx + dy)

\* numbers.forEach of onTick from index i on.  `overlap` is the set of indices
\* whose rectangle intersects shipBounds on this tick.  A number that was
\* removed from the document has an empty rectangle and intersects nothing,
\* which holds for all numbers of the array once refreshNumbers replaced it
\* (live = FALSE).
RECURSIVE TickLoop(_, _, _, _, _)
TickLoop(w, live, i, overlap, values) ==
    IF i > numNumbers \/ ~live THEN w
    ELSE LET n == w.numbers[i] IN
         IF n.visible /\ n.attached /\ i \in overlap
         THEN LET w1 == onCollision(w, i, values)
              IN  TickLoop(w1, ~failed(w1.inputs), i + 1, overlap, values)
         ELSE TickLoop(w, live, i + 1, overlap, values)

\* Captcha.onTick
onTick(w, overlap, values) ==
    TickLoop(w, TRUE, 1, overlap, values)

-----------------------------------------------------------------------------
(* EventLoop.run *)

\* a mutation of the guard of run: a paused loop is serviced
SuppressedWhileResumingOnly(w) ==
    w.resumeTimeRemaining > 0

\* if (paused || (resumeTimeRemaining > 0))
Suppressed(w) ==
    w.paused \/ (w.resumeTimeRemaining > 0)

\* the call of one tick listener
CallTick(w, fn, overlap, values) ==
    LET w1 == [w EXCEPT !.fired = Append(w.fired,
                   [kind |-> "tick", fn |-> fn, id |-> NullId, pos |-> NullPos])]
    IN  IF fn = "onTick" THEN onTick(w1, overlap, values) ELSE w1

\* tickListeners.forEach((fn) => { fn(); })
RECURSIVE TickListenersLoop(_, _, _, _)
TickListenersLoop(w, idx, overlap, values) ==
    IF idx > Len(w.tickListeners) THEN w
    ELSE TickListenersLoop(CallTick(w, w.tickListeners[idx], overlap, values),
                           idx + 1, overlap, values)

\* handler.fn(handler.code, curPos)
CallHandler(w, handler) ==
    LET w1 == [w EXCEPT !.fired = Append(w.fired,
                   [kind |-> "handler", fn |-> handler.fn, id |-> handler.id,
                    pos |-> w.curPos]),
                        !.regLog[handler.id].invoked = @ + 1]
    IN  IF handler.fn = "onKeyPress" THEN onKeyPress(w1, handler.code)
        ELSE IF handler.fn = "onDrag" /\ w.curPos # NullPos THEN onDrag(w1, w.curPos)
        ELSE w1

\* a mutation of the dispatch: a non-repeating handler is not removed
AfterCallKeepsAll(w, handler) ==
    w

\* a mutation of the dispatch: every handler is removed after its call
AfterCallRemovesAll(w, handler) ==
    remove(w, handler.id)

\* if (!handler.repeat) remove(handler.id)
AfterCall(w, handler) ==
    IF ~handler.repeat THEN remove(w, handler.id) ELSE w

\* a mutation of the dispatch: the pass walks the live list, not the copy
RECURSIVE HandlersLoopLive(_, _, _)
HandlersLoopLive(w, newHandlers, idx) ==
    IF idx > Len(w.handlers) THEN w
    ELSE HandlersLoopLive(AfterCall(CallHandler(w, w.handlers[idx]), w.handlers[idx]),
                          newHandlers, idx + 1)

\* newHandlers.forEach over the copy made before the first call
RECURSIVE HandlersLoop(_, _, _)
HandlersLoop(w, newHandlers, idx) ==
    IF idx > Len(newHandlers) THEN w
    ELSE HandlersLoop(AfterCall(CallHandler(w, newHandlers[idx]), newHandlers[idx]),
                      newHandlers, idx + 1)

\* the handlers active when a serviced tick begins are noted in regLog
NoteTick(w) ==
    [w EXCEPT !.regLog = [id \in 1 .. Len(w.regLog) |->
        IF \E i \in 1 .. Len(w.handlers) : w.handlers[i].id = id
        THEN [w.regLog[id] EXCEPT !.ticks = @ + 1]
        ELSE w.regLog[id]]]

\* a mutation of the countdown: two intervals per tick
CountDownTwice(w) ==
    IF w.resumeTimeRemaining > 0
    THEN [w EXCEPT !.resumeTimeRemaining = w.resumeTimeRemaining - 2 * EVENT_INTERVAL]
    ELSE w

\* if (resumeTimeRemaining > 0) resumeTimeRemaining -= EVENT_INTERVAL
CountDown(w) ==
    IF w.resumeTimeRemaining > 0
    THEN [w EXCEPT !.resumeTimeRemaining = w.resumeTimeRemaining - EVENT_INTERVAL]
    ELSE w

\* a mutation of run: the handlers are called before the tick listeners
runHandlersFirst(w, overlap, values) ==
    IF Suppressed(w) THEN CountDown(w)
    ELSE LET w0 == NoteTick(w)
             w1 == HandlersLoop(w0, w0.handlers, 1)
         IN  TickListenersLoop(w1, 1, overlap, values)

\* EventLoop.run
run(w, overlap, values) ==
    IF Suppressed(w) THEN CountDown(w)
    ELSE LET w1 == TickListenersLoop(NoteTick(w), 1, overlap, values)
         IN  HandlersLoop(w1, w1.handlers, 1)

-----------------------------------------------------------------------------
(* The program state as a record, and back *)

World ==
    [posX |-> posX, posY |-> posY, scale |-> scale, angle |-> angle,
     handlers |-> handlers, keyListeners |-> keyListeners,
     mouseListeners |-> mouseListeners, tickListeners |-> tickListeners,
     nextId |-> nextId, curPos |-> curPos, paused |-> paused,
     resumeTimeRemaining |-> resumeTimeRemaining,
     numbers |-> numbers, done |-> done, inputs |-> inputs, overlay |-> overlay,
     posted |-> posted, regLog |-> regLog,
     fired |-> <<>>, calls |-> <<>>]

\* ticks begun since the last resume(), once the step's calls are known
NextResumeTicks(w, isTick) ==
    IF w.calls # <<>>
    THEN (IF w.calls[Len(w.calls)] = "resume" THEN 0 ELSE -1)
    ELSE IF isTick /\ resumeTicks >= 0
         THEN Min(resumeTicks + 1, (RESUME_INTERVAL \div EVENT_INTERVAL) + 1)
         ELSE resumeTicks

NoTick ==
    [tick |-> FALSE, paused |-> FALSE, remaining |-> 0, resumeTicks |-> -1,
     handlers |-> <<>>, tickListeners |-> <<>>]

\* the step is a serviced tick in which a handler ran or a number was hit
Busy(w, isTick) ==
    isTick /\ ~Suppressed(World) /\ [w EXCEPT !.fired = <<>>] # World

\* the step ends in the state w; maxEvents and maxRuns bound the run
Commit(w, isTick, maxEvents, maxRuns) ==
    /\ isTick \/ events < maxEvents
    /\ events' = IF isTick THEN events ELSE events + 1
    /\ SetPose(w)
    /\ handlers' = w.handlers
    /\ keyListeners' = w.keyListeners
    /\ mouseListeners' = w.mouseListeners
    /\ tickListeners' = w.tickListeners
    /\ nextId' = w.nextId
    /\ curPos' = w.curPos
    /\ paused' = w.paused
    /\ resumeTimeRemaining' = w.resumeTimeRemaining
    /\ numbers' = w.numbers
    /\ done' = w.done
    /\ inputs' = w.inputs
    /\ overlay' = w.overlay
    /\ posted' = w.posted
    /\ regLog' = w.regLog
    /\ fired' = w.fired
    /\ calls' = w.calls
    /\ resumeTicks' = NextResumeTicks(w, isTick)
    /\ tickLog' = [tick |-> isTick, paused |-> paused,
                   remaining |-> resumeTimeRemaining,
                   resumeTicks |-> resumeTicks,
                   handlers |-> IF isTick THEN handlers ELSE <<>>,
                   tickListeners |-> IF isTick THEN tickListeners ELSE <<>>]
    /\ Busy(w, isTick) => runs < maxRuns
    /\ runs' = IF Busy(w, isTick) THEN runs + 1 ELSE runs
    /\ UNCHANGED <<genVars, shipLog, steerLog, shellVars>>

-----------------------------------------------------------------------------
(* Inputs of the model *)

\* keys the user presses
KeyInputs == {LEFT, UP}

\* points of the page: two inside the canvas, one outside
PointAbove == <<offsetLeft + centerX, offsetTop + PosScale>>
PointRight == <<offsetLeft + CanvasWidth - PosScale, offsetTop + centerY>>
PointOutside == <<offsetLeft - 1, offsetTop + centerY>>

\* mousedown and touchstart events
PressEvents ==
    {MouseEvent(PointAbove), MouseEvent(PointOutside), TouchEvent(<<PointRight>>),
     TouchEvent(<<PointAbove, PointRight>>)}

\* mousemove and touchmove events
MoveEvents ==
    {MouseEvent(PointRight), MouseEvent(PointOutside),
     TouchEvent(<<PointAbove, PointRight>>)}

-----------------------------------------------------------------------------
(* The shell game.  Its operations are functions on a record g holding the  *)
(* variables of its Captcha.  An entry of `animations` is a frame: a frame  *)
(* of a reveal is an array of points, a frame of a shuffle is an array of   *)
(* arcs, one per can, which all hold the same number of points.             *)

REVEAL_TICK == 2
NUM_CANS == 3
NUM_ROUNDS == 3
ANIMATION_SPEED == 80
ANIMATION_COUNT == 5

\* null, for a can index
NullCan == -1

\* Can(document, container, (idx == Math.floor(NUM_CANS / 2))).containsBeans()
containsBeans(idx) ==
    idx = NUM_CANS \div 2

\* a frame of a reveal
RevealFrame == [arc |-> FALSE, points |-> 0]

\* new Arc(start, end, numPoints, trajectory) for every can: Array.from makes
\* floor(numPoints) points, and the end point is pushed behind them
ArcFrame(numPoints) == [arc |-> TRUE, points |-> numPoints + 1]

Repeat(x, n) == [i \in 1 .. n |-> x]

\* Captcha.generateReveal
generateReveal(g, canIdx, show, hide) ==
    LET numRevealAnimations ==
            (100 \div REVEAL_TICK) * (IF show /\ hide THEN 2 ELSE 1)
    IN  [g EXCEPT !.revealing = canIdx,
                  !.animations = g.animations \o Repeat(RevealFrame, numRevealAnimations)]

\* Captcha.generateAnimations
generateAnimations(g) ==
    [g EXCEPT !.animations =
        g.animations \o Repeat(ArcFrame(ANIMATION_SPEED \div (g.round + 1)),
                               ANIMATION_COUNT * (g.round + 1))]

\* Captcha.startRound
startRound(g) ==
    LET g1 == [g EXCEPT !.round = g.round + 1,
                        !.started = TRUE,
                        !.overlay.shown = FALSE]
    IN  generateAnimations(generateReveal(g1, NullCan, g1.round = 1, TRUE))

\* Captcha.reset of the shell game; the picks are counted from here
shellReset(g) ==
    [g EXCEPT !.round = 0,
              !.done = FALSE,
              !.failed = FALSE,
              !.started = FALSE,
              !.animations = <<>>,
              !.overlay = [title |-> "Click Anywhere to Start", shown |-> TRUE],
              !.correct = 0,
              !.wrong = 0]

\* a mutation of onSuccess: the round is not looked at
shellOnSuccessAnyRound(g) ==
    [g EXCEPT !.done = TRUE,
              !.overlay = [title |-> "Success", shown |-> TRUE],
              !.posted = g.posted + 1,
              !.correct = g.correct + 1]

\* Captcha.onSuccess of the shell game
shellOnSuccess(g) ==
    IF g.round >= NUM_ROUNDS
    THEN [g EXCEPT !.done = TRUE,
                   !.overlay = [title |-> "Success", shown |-> TRUE],
                   !.posted = g.posted + 1,
                   !.correct = g.correct + 1]
    ELSE [g EXCEPT !.started = FALSE,
                   !.overlay = [title |-> "Round Complete", shown |-> TRUE],
                   !.correct = g.correct + 1]

\* Captcha.onFailed of the shell game
shellOnFailed(g) ==
    [g EXCEPT !.failed = TRUE,
              !.started = FALSE,
              !.overlay = [title |-> "Try Again", shown |-> TRUE],
              !.wrong = g.wrong + 1]

\* a touchend or mouseup event: whether getCoordinates gives a point, whether
\* the point is within the container, and the can whose rectangle holds it
ClickEvent(single, inside, can) ==
    [single |-> single, inside |-> inside, can |-> can]

\* Captcha.onClick
onClick(g, ev) ==
    IF g.done \/ g.animations # <<>> THEN g
    ELSE IF ~(ev.single /\ ev.inside) THEN g
    ELSE IF g.failed THEN shellReset(g)
    ELSE IF ~g.started THEN startRound(g)
    ELSE IF ev.can # NullCan THEN generateReveal(g, ev.can, TRUE, FALSE)
    ELSE g

\* Captcha.onNextFrame: every can takes its next point.  A frame of a reveal
\* is shifted out by the last can; an arc that has run out is shifted out by
\* the first can, which goes on with the frame behind it.
onNextFrame(g) ==
    IF g.animations = <<>> THEN g
    ELSE LET head == Head(g.animations)
             rest == Tail(g.animations)
         IN  IF ~head.arc THEN [g EXCEPT !.animations = rest]
             ELSE IF head.points > 0
             THEN [g EXCEPT !.animations[1].points = head.points - 1]
             ELSE IF rest = <<>> \/ ~Head(rest).arc
             THEN [g EXCEPT !.animations = rest]
             ELSE [g EXCEPT !.animations =
                      <<[Head(rest) EXCEPT !.points = Head(rest).points - 1]>>
                          \o Tail(rest)]

\* Captcha.onTick of the shell game; requestAnimationFrame adds to the
\* frames that are due
shellOnTick(g) ==
    IF g.animations = <<>>
    THEN IF g.revealing # NullCan
         THEN LET g1 == [g EXCEPT !.revealing = NullCan]
              IN  IF containsBeans(g.revealing) THEN shellOnSuccess(g1)
                  ELSE shellOnFailed(g1)
         ELSE g
    ELSE [g EXCEPT !.pending = g.pending + 1]

\* the step began in the current state of the game
ShellLogOf(op, ev) ==
    [op |-> op, ev |-> ev, round |-> shell.round, failed |-> shell.failed,
     revealing |-> shell.revealing, idle |-> shell.animations = <<>>,
     posted |-> shell.posted]

\* Captcha(window, document) of the shell game as constructed: bind(),
\* render(), reset()
ShellInit ==
    /\ shell = [round |-> 0, done |-> FALSE, failed |-> FALSE, started |-> FALSE,
                revealing |-> NullCan, animations |-> <<>>, pending |-> 0,
                posted |-> 0,
                overlay |-> [title |-> "Click Anywhere to Start", shown |-> TRUE],
                correct |-> 0, wrong |-> 0]
    /\ shellLog = [op |-> "new", ev |-> ClickEvent(FALSE, FALSE, NullCan),
                   round |-> 0, failed |-> FALSE, revealing |-> NullCan,
                   idle |-> TRUE, posted |-> 0]

\* the touchend and mouseup events of the document: on a can, within the
\* container on no can, outside the container, and a touchend that leaves no
\* single contact
ClickEvents ==
    {ClickEvent(TRUE, TRUE, c) : c \in 0 .. (NUM_CANS - 1)}
        \cup {ClickEvent(TRUE, TRUE, NullCan), ClickEvent(TRUE, FALSE, NullCan),
              ClickEvent(FALSE, FALSE, NullCan)}

-----------------------------------------------------------------------------
(* Specifications *)

\* EventLoop(document, canvas) as constructed
LoopInit ==
    /\ handlers = <<>>
    /\ nextId = 0
    /\ curPos = NullPos
    /\ paused = FALSE
    /\ resumeTimeRemaining = 0

\* no event: the argument of a step that is not a mouse or touch event
NoEvent == [mouse |-> FALSE, client |-> NullPos, touches |-> <<>>]

\* the step is the event `kind` with key code key (0 if it has none) and
\* event object ev, taken in the current state of the loop
EventLog(kind, key, ev) ==
    [kind |-> kind, key |-> key, ev |-> ev, curPos |-> curPos,
     handlers |-> handlers, keyListeners |-> keyListeners,
     mouseListeners |-> mouseListeners]

HistInit ==
    /\ evLog = [kind |-> "none", key |-> 0, ev |-> NoEvent, curPos |-> NullPos,
                handlers |-> <<>>, keyListeners |-> <<>>, mouseListeners |-> <<>>]
    /\ fired = <<>>
    /\ calls = <<>>
    /\ tickLog = NoTick
    /\ regLog = <<>>
    /\ resumeTicks = -1
    /\ runs = 0
    /\ events = 0

\* the listeners Captcha.bind registers, in order
BoundKeyListeners ==
    [i \in 1 .. 8 |->
        EventHandler(NullId, KEY, <<UP, DOWN, LEFT, RIGHT, KeyW, KeyA, KeyS, KeyD>>[i],
                     "onKeyPress", TRUE)]

BoundMouseListeners ==
    <<EventHandler(NullId, MOUSE, NullPos, "onDrag", TRUE),
      EventHandler(NullId, TOUCH, NullPos, "onDrag", TRUE)>>

\* Captcha(window, document) as constructed
Init ==
    /\ GenInit
    /\ ShipInit
    /\ LoopInit
    /\ HistInit
    /\ ShellInit
    /\ keyListeners = BoundKeyListeners
    /\ mouseListeners = BoundMouseListeners
    /\ tickListeners = <<"onTick">>
    /\ \E values \in TokenArrays :
          numbers = [i \in 1 .. numNumbers |-> NewNumber(values[i])]
    /\ done = FALSE
    /\ inputs = <<<<>>, <<>>, <<>>>>
    /\ overlay = [title |-> "Solve the Equation", shown |-> TRUE]
    /\ posted = 0

\* a keydown event of the document
KeyDownEvent(maxEvents, maxRuns) ==
    \E key \in KeyInputs :
        /\ \E w \in {onKeyDown(World, key)} : Commit(w, FALSE, maxEvents, maxRuns)
        /\ evLog' = EventLog("keydown", key, NoEvent)

\* a keyup event of the document
KeyUpEvent(maxEvents, maxRuns) ==
    \E key \in KeyInputs :
        /\ \E w \in {onKeyUp(World, key)} : Commit(w, FALSE, maxEvents, maxRuns)
        /\ evLog' = EventLog("keyup", key, NoEvent)

\* a mousemove or touchmove event of the document
MoveEvent(maxEvents, maxRuns) ==
    \E ev \in MoveEvents :
        /\ \E w \in {onTouchMove(World, ev)} : Commit(w, FALSE, maxEvents, maxRuns)
        /\ evLog' = EventLog("move", 0, ev)

\* a mouseup or touchend event of the document
ReleaseEvent(maxEvents, maxRuns) ==
    /\ \E w \in {onTouchEnd(World)} : Commit(w, FALSE, maxEvents, maxRuns)
    /\ evLog' = EventLog("release", 0, NoEvent)

\* the numbers that can intersect the ship on a serviced tick
Collidable ==
    IF Suppressed(World) THEN {}
    ELSE {i \in 1 .. Len(numbers) : numbers[i].visible /\ numbers[i].attached}

\* the arrays refreshNumbers can draw on a tick with this overlap: the choice
\* matters only when the tick ends in onFailed
Refreshes(overlap) ==
    LET any == CHOOSE values \in TokenArrays : TRUE
    IN  IF failed(run(World, overlap, any).inputs) /\ ~failed(inputs)
        THEN TokenArrays ELSE {any}

\* the interval timer fires: run()
TimerTick(maxEvents, maxRuns) ==
    /\ \E overlap \in SUBSET Collidable : \E values \in Refreshes(overlap) :
          \E w \in {run(World, overlap, values)} : Commit(w, TRUE, maxEvents, maxRuns)
    /\ evLog' = EventLog("tick", 0, NoEvent)

(* The captcha page *)

KeyDown == KeyDownEvent(MaxEvents, MaxRuns)
KeyUp == KeyUpEvent(MaxEvents, MaxRuns)
Move == MoveEvent(MaxEvents, MaxRuns)
Release == ReleaseEvent(MaxEvents, MaxRuns)
Tick == TimerTick(MaxEvents, MaxRuns)

\* a mousedown or touchstart event of the document: the listener of the
\* EventLoop was added first and runs first, then the listener of Captcha
Press ==
    \E ev \in PressEvents :
        /\ \E w \in {onTouch(onTouchStart(World, ev), ev)} :
              Commit(w, FALSE, MaxEvents, MaxRuns)
        /\ evLog' = EventLog("press", 0, ev)

Next ==
    \/ KeyDown
    \/ KeyUp
    \/ Press
    \/ Move
    \/ Release
    \/ Tick

Spec == Init /\ [][Next]_vars

(* The parts on their own: an EventLoop, a Ship and the generator as        *)
(* constructed, with no Captcha bound to them.                              *)

PartsInit ==
    /\ GenInit
    /\ ShipInit
    /\ LoopInit
    /\ HistInit
    /\ ShellInit
    /\ keyListeners = <<>>
    /\ mouseListeners = <<>>
    /\ tickListeners = <<>>
    /\ numbers = <<>>
    /\ done = FALSE
    /\ inputs = <<<<>>, <<>>, <<>>>>
    /\ overlay = [title |-> "", shown |-> FALSE]
    /\ posted = 0

\* the listener lists of a new EventLoop
NoListeners ==
    [keyListeners |-> <<>>, mouseListeners |-> <<>>, tickListeners |-> <<>>]

\* the listener lists after a client registered two repeating listeners of
\* each class, both key listeners on the same code
TwoOfEach ==
    LET k == addKeyEvent(addKeyEvent(NoListeners, UP, "cb", TRUE), UP, "cb", TRUE)
        m == addTouchEvent(addMouseEvent(k, "cb", TRUE), "cb", TRUE)
    IN  addTickEvent(addTickEvent(m, "cb"), "cb2")

\* the listener lists after a client registered a repeating key listener, a
\* non-repeating key listener on another code and a non-repeating mouse
\* listener
OneShots ==
    LET k == addKeyEvent(addKeyEvent(NoListeners, UP, "cb", TRUE), LEFT, "cb", FALSE)
    IN  addMouseEvent(k, "cb", FALSE)

ListenerSetups == {TwoOfEach, OneShots}

\* an EventLoop whose client has registered its listeners, as Captcha.bind
\* does before any event arrives
LoopClientInit ==
    /\ GenInit
    /\ ShipInit
    /\ LoopInit
    /\ HistInit
    /\ ShellInit
    /\ \E setup \in ListenerSetups :
          /\ keyListeners = setup.keyListeners
          /\ mouseListeners = setup.mouseListeners
          /\ tickListeners = setup.tickListeners
    /\ numbers = <<>>
    /\ done = FALSE
    /\ inputs = <<<<>>, <<>>, <<>>>>
    /\ overlay = [title |-> "", shown |-> FALSE]
    /\ posted = 0

(* An EventLoop on its own: its client registers listeners whose callbacks  *)
(* ("cb") leave the loop alone, and calls pause() and resume().             *)

LoopKeyDown == KeyDownEvent(MaxLoopEvents, MaxLoopRuns)
LoopKeyUp == KeyUpEvent(MaxLoopEvents, MaxLoopRuns)
LoopMove == MoveEvent(MaxLoopEvents, MaxLoopRuns)
LoopRelease == ReleaseEvent(MaxLoopEvents, MaxLoopRuns)
LoopTick == TimerTick(MaxLoopEvents, MaxLoopRuns)

LoopPress ==
    \E ev \in PressEvents :
        /\ \E w \in {onTouchStart(World, ev)} :
              Commit(w, FALSE, MaxLoopEvents, MaxLoopRuns)
        /\ evLog' = EventLog("press", 0, ev)

AddKeyEvent ==
    \E code \in KeyInputs : \E repeat \in BOOLEAN :
        /\ \E w \in {addKeyEvent(World, code, "cb", repeat)} :
              Commit(w, FALSE, MaxLoopEvents, MaxLoopRuns)
        /\ evLog' = EventLog("addKeyEvent", code, NoEvent)

AddMouseEvent ==
    \E repeat \in BOOLEAN :
        /\ \E w \in {addMouseEvent(World, "cb", repeat)} :
              Commit(w, FALSE, MaxLoopEvents, MaxLoopRuns)
        /\ evLog' = EventLog("addMouseEvent", 0, NoEvent)

AddTouchEvent ==
    \E repeat \in BOOLEAN :
        /\ \E w \in {addTouchEvent(World, "cb", repeat)} :
              Commit(w, FALSE, MaxLoopEvents, MaxLoopRuns)
        /\ evLog' = EventLog("addTouchEvent", 0, NoEvent)

\* the callbacks the client registers for ticks
TickCallbacks == {"cb", "cb2"}

AddTickEvent ==
    \E fn \in TickCallbacks :
        /\ \E w \in {addTickEvent(World, fn)} :
              Commit(w, FALSE, MaxLoopEvents, MaxLoopRuns)
        /\ evLog' = EventLog("addTickEvent", 0, NoEvent)

PauseCall ==
    /\ \E w \in {pause(World)} : Commit(w, FALSE, MaxLoopEvents, MaxLoopRuns)
    /\ evLog' = EventLog("pause", 0, NoEvent)

ResumeCall ==
    /\ \E w \in {resume(World)} : Commit(w, FALSE, MaxLoopEvents, MaxLoopRuns)
    /\ evLog' = EventLog("resume", 0, NoEvent)

LoopNext ==
    \/ AddKeyEvent
    \/ AddMouseEvent
    \/ AddTouchEvent
    \/ AddTickEvent
    \/ PauseCall
    \/ ResumeCall
    \/ LoopKeyDown
    \/ LoopKeyUp
    \/ LoopPress
    \/ LoopMove
    \/ LoopRelease
    \/ LoopTick

SpecLoop == PartsInit /\ [][LoopNext]_vars

(* The input handling of an EventLoop whose listeners are registered: the   *)
(* events of the document and the timer, with no call of pause() or         *)
(* resume().                                                                *)

InputKeyDown == KeyDownEvent(MaxInputEvents, MaxInputRuns)
InputKeyUp == KeyUpEvent(MaxInputEvents, MaxInputRuns)
InputMove == MoveEvent(MaxInputEvents, MaxInputRuns)
InputRelease == ReleaseEvent(MaxInputEvents, MaxInputRuns)
InputTick == TimerTick(MaxInputEvents, MaxInputRuns)

InputPress ==
    \E ev \in PressEvents :
        /\ \E w \in {onTouchStart(World, ev)} :
              Commit(w, FALSE, MaxInputEvents, MaxInputRuns)
        /\ evLog' = EventLog("press", 0, ev)

InputNext ==
    \/ InputKeyDown
    \/ InputKeyUp
    \/ InputPress
    \/ InputMove
    \/ InputRelease
    \/ InputTick

SpecInput == LoopClientInit /\ [][InputNext]_vars

GenNext ==
    \/ GenStart
    \/ GenDraw
    \/ GenRejectSum
    \/ GenRejectCount
    \/ GenReturn

otherVars == <<loopVars, captchaVars, histVars, shellVars>>

SpecGen == PartsInit /\ [][GenNext /\ UNCHANGED <<shipVars, otherVars>>]_vars

(* The generator under fairness: a call that has not returned goes on with *)
(* the next step of its loop.                                               *)

\* a step of while (true)
GenPass ==
    /\ GenDraw \/ GenRejectSum \/ GenRejectCount \/ GenReturn
    /\ UNCHANGED <<shipVars, otherVars>>

SpecGenFair ==
    /\ PartsInit
    /\ [][GenNext /\ UNCHANGED <<shipVars, otherVars>>]_vars
    /\ WF_vars(GenPass)

(* The generator as Captcha calls it by default, on draws that differ from  *)
(* the example of the README in one element.                                *)

\* DEFAULT_NUM_ASTEROIDS
DEFAULT_NUM_ASTEROIDS == 6

\* "The available numbers are 52, 27, 1, 15, 18 and 16."
ReadmeExample == <<52, 27, 1, 15, 18, 16>>

\* the example with one element drawn again
NearExample ==
    {[ReadmeExample EXCEPT ![i] = v] :
        i \in 1 .. Len(ReadmeExample), v \in getRandomInt(1, MAX_SUM - 1)}

\* those of them that the fill loop can build
ExampleDraws ==
    {a \in NearExample : a \in Candidates(DEFAULT_NUM_ASTEROIDS, MAX_SUM)}

\* generateSpecialArray(numNumbers, MAX_SUM) with the default numNumbers
GenStartDefault ==
    GenCall(DEFAULT_NUM_ASTEROIDS, MAX_SUM)

\* one pass of while (true) that builds one of these arrays
GenDrawNear ==
    /\ genPc = "draw"
    /\ \E a \in ExampleDraws : arr' = a
    /\ genPc' = "check"
    /\ UNCHANGED <<arrayLength, maxSum>>

DefaultNext ==
    \/ GenStartDefault
    \/ GenDrawNear
    \/ GenRejectSum
    \/ GenRejectCount
    \/ GenReturn

SpecDefault == PartsInit /\ [][DefaultNext /\ UNCHANGED <<shipVars, otherVars>>]_vars

\* an operation on the ship alone: the pose becomes s
ShipStep(s, op, deg, pos) ==
    /\ SetPose(s)
    /\ shipLog' = ShipLogOf(op, deg, pos)
    /\ UNCHANGED steerLog
    /\ UNCHANGED <<genVars, otherVars>>

ShipReset == ShipStep(reset(Pose), "reset", 0, NullPos)
ShipForward == ShipStep(forward(Pose), "forward", 0, NullPos)
ShipRotateLeft == ShipStep(rotateLeft(Pose), "rotateLeft", -TURN_ANGLE, NullPos)
ShipRotateRight == ShipStep(rotateRight(Pose), "rotateRight", TURN_ANGLE, NullPos)

ShipNext ==
    \/ ShipReset
    \/ ShipForward
    \/ ShipRotateLeft
    \/ ShipRotateRight

SpecShip == PartsInit /\ [][ShipNext]_vars

(* The rotation of Ship.update on its own: update(0, 0, d) applied to the   *)
(* headings of [0, 360) with rotations of either sign, above 360 included.  *)

TurnDeltas == {-370, -TURN_ANGLE, TURN_ANGLE, 370}

ShipTurn ==
    \E d \in TurnDeltas :
        /\ angle \in 0 .. 359
        /\ ShipStep(update(Pose, 0, 0, d), "update", d, NullPos)

SpecTurn == PartsInit /\ [][ShipTurn]_vars

(* Ship.update called with a displacement and a rotation at once: a pixel   *)
(* or nothing along each axis, a turn to either side or none.               *)

UpdateShifts == {-PosScale, 0, PosScale}
UpdateTurns == {-TURN_ANGLE, 0, TURN_ANGLE}

ShipUpdate ==
    \E xDelta \in UpdateShifts : \E yDelta \in UpdateShifts : \E degDelta \in UpdateTurns :
        ShipStep(update(Pose, xDelta, yDelta, degDelta), "updateBoth", degDelta,
                 <<xDelta, yDelta>>)

SpecUpdate == PartsInit /\ [][ShipUpdate]_vars

(* Steering on its own: onDrag invoked with the tracked position at one of  *)
(* a few points of the page.                                                *)

\* a point of the canvas less than a pixel from the front of the constructed
\* ship, up and slightly to the left of it
PointAhead == <<offsetLeft + InitialPose.posX + 1, offsetTop + InitialPose.posY - 8>>

\* the point of the canvas under the front of the ship once the constructed
\* ship has made three steering turns to the left
PointFront ==
    LET front == getFront([InitialPose EXCEPT !.angle = INITIAL_ANGLE - 3 * TURN_ANGLE])
    IN  <<offsetLeft + (front[1] \div 2), offsetTop + (front[2] \div 2)>>

DragPoints == {PointAhead, PointAbove, PointRight, PointFront}

ShipDrag ==
    \E pos \in DragPoints : ShipStep(onDrag(Pose, pos), "onDrag", 0, pos)

SpecDrag == PartsInit /\ [][ShipDrag]_vars

(* Everything that places the ship: construction, reset, the rotations, the *)
(* forward move and the steering.                                           *)

\* the steering towards a target in the direction 0, beyond the thrust
\* distance
ShipSteer ==
    ShipStep(SteerTo(Pose, 0, 2 * PosScale * THRUST_DISTANCE), "steer", 0, NullPos)

PoseNext ==
    \/ ShipNext
    \/ ShipSteer

SpecPose == PartsInit /\ [][PoseNext]_vars

(* Steering with the direction of the target held constant: the drag      *)
(* begins with the ship at its constructed position under some heading the *)
(* keys can give it, and every tick steers to the same direction, the       *)
(* target at any distance.                                                  *)

\* the whole degrees targetDeg can take
SteerTargets == 0 .. 359

\* headings of the ship when the drag begins
StartHeadings == {0, INITIAL_ANGLE, INITIAL_ANGLE + 180, 360}

\* dx + dy, in half units: negative, zero, and beyond the thrust distance
SteerSums == {-1, 0, 2 * PosScale * THRUST_DISTANCE}

SteerInit ==
    /\ GenInit
    /\ LoopInit
    /\ HistInit
    /\ ShellInit
    /\ keyListeners = <<>>
    /\ mouseListeners = <<>>
    /\ tickListeners = <<>>
    /\ numbers = <<>>
    /\ done = FALSE
    /\ inputs = <<<<>>, <<>>, <<>>>>
    /\ overlay = [title |-> "", shown |-> FALSE]
    /\ posted = 0
    /\ posX = InitialPose.posX
    /\ posY = InitialPose.posY
    /\ scale = InitialPose.scale
    /\ angle \in StartHeadings
    /\ shipLog = [op |-> "new", deg |-> 0, pos |-> <<>>,
                  posX |-> InitialPose.posX, posY |-> InitialPose.posY,
                  angle |-> angle]
    /\ \E t \in SteerTargets : steerLog = [NoSteer EXCEPT !.steering = TRUE, !.target = t]

\* the steering finds the ship aligned with the target direction
SteerAligned ==
    Abs(FoldDelta(steerLog.target - angle)) >= 180 - TURN_ANGLE

\* a tick of the drag: onDrag from the target direction on
SteerTick ==
    \E sum \in SteerSums : \E s \in {SteerTo(Pose, steerLog.target, sum)} :
        /\ steerLog.aligned \/ SteerAligned \/ steerLog.ticks < MaxSteerTicks
        /\ SetPose(s)
        /\ shipLog' = ShipLogOf("steer", steerLog.target, NullPos)
        /\ steerLog' =
              [steerLog EXCEPT
                  !.ticks = IF steerLog.aligned \/ SteerAligned THEN @ ELSE @ + 1,
                  !.turns = IF (s.angle - angle) % 360 = TURN_ANGLE THEN @ \cup {"right"}
                            ELSE IF (angle - s.angle) % 360 = TURN_ANGLE THEN @ \cup {"left"}
                            ELSE @,
                  !.aligned = @ \/ SteerAligned,
                  !.turnedAfter = @ \/ (steerLog.aligned /\ s.angle # angle)]
        /\ UNCHANGED <<genVars, otherVars>>

SpecSteer == SteerInit /\ [][SteerTick]_vars

(* The shell game: clicks, the interval timer and the animation frames.     *)

ShellFrameCondition == UNCHANGED <<genVars, shipVars, loopVars, captchaVars, histVars>>

\* a touchend or mouseup event of the document
ShellClick ==
    \E ev \in ClickEvents :
        /\ shell' = onClick(shell, ev)
        /\ shellLog' = ShellLogOf("click", ev)
        /\ ShellFrameCondition

\* setInterval(onTick, EVENT_LOOP_TICK)
ShellTick ==
    /\ shell.animations # <<>> => shell.pending < MaxPendingFrames
    /\ shell' = shellOnTick(shell)
    /\ shellLog' = ShellLogOf("tick", ClickEvent(FALSE, FALSE, NullCan))
    /\ ShellFrameCondition

\* a requested animation frame runs onNextFrame
ShellFrame ==
    /\ shell.pending > 0
    /\ shell' = [onNextFrame(shell) EXCEPT !.pending = shell.pending - 1]
    /\ shellLog' = ShellLogOf("frame", ClickEvent(FALSE, FALSE, NullCan))
    /\ ShellFrameCondition

ShellNext ==
    \/ ShellClick
    \/ ShellTick
    \/ ShellFrame

SpecShell == PartsInit /\ [][ShellNext]_vars

-----------------------------------------------------------------------------
(* Properties of generateSpecialArray, checked under SpecGen *)

Returned == genPc = "returned"

\* the 3-element sets of positions of the returned array
PositionTriples ==
    {t \in SUBSET (1 .. Len(arr)) : Cardinality(t) = 3}

\* two of the three elements at the positions of t sum to the third
Additive(t) ==
    \E i \in t : \E j \in t \ {i} : \E k \in t \ {i, j} : arr[i] + arr[j] = arr[k]

\* C3: every returned array contains exactly one 3-element set of positions
\* in which two elements sum to the third (equal values at different
\* positions count separately).
C3_ExactlyOneAdditiveTriple ==
    Returned => Cardinality({t \in PositionTriples : Additive(t)}) = 1

\* an array with a repeated value was returned
C3_Witness ==
    /\ Returned
    /\ arrayLength = MaxLen
    /\ \E i \in 1 .. Len(arr) : \E j \in 1 .. Len(arr) : i # j /\ arr[i] = arr[j]

\* C4: in every returned array no three elements at distinct positions sum
\* to maxSum or more.
C4_NoTripleReachesMaxSum ==
    Returned =>
        \A i \in 1 .. Len(arr) : \A j \in 1 .. Len(arr) : \A k \in 1 .. Len(arr) :
            (i # j /\ j # k /\ i # k) => arr[i] + arr[j] + arr[k] < maxSum

\* an array was returned whose largest triple is just below the bound
C4_Witness ==
    /\ Returned
    /\ \E t \in PositionTriples :
          \E i \in t : \E j \in t \ {i} : \E k \in t \ {i, j} :
              arr[i] + arr[j] + arr[k] = maxSum - 1

\* C5: for arrayLength >= 3 a returned array has exactly arrayLength elements,
\* each an integer in 1 .. maxSum - 1.
C5_LengthAndRange ==
    (Returned /\ arrayLength >= 3) =>
        /\ Len(arr) = arrayLength
        /\ DOMAIN arr = 1 .. arrayLength
        /\ \A i \in 1 .. Len(arr) : arr[i] \in 1 .. (maxSum - 1)

\* a call with the longest array returned
C5_Witness ==
    /\ Returned
    /\ arrayLength = MaxLen
    /\ Len(arr) = MaxLen

-----------------------------------------------------------------------------
(* Properties of the Ship, checked under SpecShip *)

-----------------------------------------------------------------------------
(* Properties of the captcha page, checked under Spec *)

\* C2: the "success" message is posted to the host frame at most once,
\* however many numbers the ship overlaps in the tick in which the equation
\* becomes solved.  (After a success the loop stays paused, so a run has at
\* most one successful round.)
C2_PostedAtMostOnce ==
    posted <= 1

\* the last step was a tick of the timer that began in a paused loop
TickBeganPaused ==
    tickLog.tick /\ tickLog.paused

\* C6: a tick that begins while the loop is paused invokes no tick callback
\* and no key or drag handler.
C6_NothingFiresWhilePaused ==
    TickBeganPaused => fired = <<>>

\* a tick began paused while a handler was armed
C6_Witness ==
    /\ TickBeganPaused
    /\ tickLog.handlers # <<>>
    /\ tickLog.tickListeners # <<>>

\* the callbacks a serviced tick invokes: every tick listener, then every
\* handler that was active when the tick began
ServicedNormally ==
    /\ Len(fired) = Len(tickLog.tickListeners) + Len(tickLog.handlers)
    /\ \A i \in 1 .. Len(tickLog.tickListeners) : fired[i].kind = "tick"
    /\ \A i \in 1 .. Len(tickLog.handlers) :
          fired[Len(tickLog.tickListeners) + i].id = tickLog.handlers[i].id

\* C7: after resume() with no later pause() or resume(), the countdown is
\* 100 less 5 for every tick begun, no callback is invoked on a tick that
\* begins with the countdown above zero, so the first 20 ticks invoke
\* nothing, and the tick after them invokes the callbacks normally.
C7_DebounceWindow ==
    /\ resumeTicks >= 0 =>
          /\ ~paused
          /\ resumeTimeRemaining = (IF resumeTicks <= 20 THEN 100 - 5 * resumeTicks ELSE 0)
    /\ (tickLog.tick /\ tickLog.remaining > 0) => fired = <<>>
    /\ (tickLog.tick /\ tickLog.resumeTicks >= 0 /\ tickLog.resumeTicks < 20) =>
          (tickLog.remaining > 0 /\ fired = <<>>)
    /\ (tickLog.tick /\ tickLog.resumeTicks >= 20) =>
          (tickLog.remaining = 0 /\ ServicedNormally)

\* the loop was paused and resumed, and the 21st tick after the resume
\* invoked a callback
C7_Witness ==
    /\ tickLog.tick
    /\ tickLog.resumeTicks = 20
    /\ fired # <<>>
    /\ overlay.title = "Paused"

\* the three states of the scheduler
SchedState(p, r) ==
    IF p THEN "PAUSED" ELSE IF r > 0 THEN "RESUMING" ELSE "RUNNING"

StateBefore == SchedState(tickLog.paused, tickLog.remaining)
StateAfter == SchedState(paused, resumeTimeRemaining)

\* the last call the step made to pause() or resume(), "" if it made none
LastCall == IF calls = <<>> THEN "" ELSE calls[Len(calls)]

\* the four transitions of the claim
ListedTransition ==
    \/ StateBefore = "RUNNING" /\ StateAfter = "PAUSED" /\ LastCall = "pause"
    \/ StateBefore = "PAUSED" /\ StateAfter = "RESUMING" /\ LastCall = "resume"
    \/ StateBefore = "RESUMING" /\ StateAfter = "RESUMING" /\ LastCall = "resume"
    \/ /\ StateBefore = "RESUMING" /\ StateAfter = "RUNNING"
       /\ tickLog.tick /\ calls = <<>> /\ tickLog.remaining = EVENT_INTERVAL

\* a step that neither calls pause() or resume() nor leaves the state
NoTransition ==
    StateBefore = StateAfter /\ (calls = <<>> \/ StateAfter = "PAUSED")

\* C8 as stated: every step of the running program is one of the four
\* listed transitions, or no transition at all.
C8_OnlyListedTransitions ==
    ListedTransition \/ NoTransition

\* C8 amended: besides the four listed transitions the running program
\* takes RUNNING -> RESUMING by resume() (a click inside the play area while
\* running) and RESUMING -> PAUSED by pause() (a click outside it during the
\* countdown); no other transition occurs.
C8_ListedAndTwoMore ==
    \/ ListedTransition
    \/ NoTransition
    \/ StateBefore = "RUNNING" /\ StateAfter = "RESUMING" /\ LastCall = "resume"
    \/ StateBefore = "RESUMING" /\ StateAfter = "PAUSED" /\ LastCall = "pause"

\* a pause() cut a countdown short
C8_Witness ==
    /\ StateBefore = "RESUMING"
    /\ StateAfter = "PAUSED"
    /\ LastCall = "pause"
    /\ tickLog.remaining < RESUME_INTERVAL

-----------------------------------------------------------------------------
(* Properties of the EventLoop, checked under SpecLoop *)

ActiveIds == {handlers[i].id : i \in 1 .. Len(handlers)}

ArmedIds ==
    {keyListeners[i].id : i \in 1 .. Len(keyListeners)}
        \cup {mouseListeners[i].id : i \in 1 .. Len(mouseListeners)}

\* the last step was a serviced tick that began with handler id active
TickBeganWith(id) ==
    /\ tickLog.tick
    /\ ~tickLog.paused
    /\ tickLog.remaining = 0
    /\ \E i \in 1 .. Len(tickLog.handlers) : tickLog.handlers[i].id = id

\* number of calls of handler id in the last step
FiredCount(id) ==
    Cardinality({i \in 1 .. Len(fired) : fired[i].kind = "handler" /\ fired[i].id = id})

\* C9: a non-repeating registration that is active when a serviced tick
\* begins is invoked in that tick, is gone from the active set (and its
\* listener disarmed) when the tick ends, and is invoked once in total.
C9_NonRepeatingFiresOnce ==
    \A id \in 1 .. Len(regLog) :
        ~regLog[id].repeat =>
            /\ regLog[id].invoked <= 1
            /\ regLog[id].invoked = regLog[id].ticks
            /\ regLog[id].ticks >= 1 => (id \notin ActiveIds /\ id \notin ArmedIds)
            /\ TickBeganWith(id) => FiredCount(id) = 1

\* a non-repeating registration fired, and a later serviced tick ran without it
C9_Witness ==
    \E id \in 1 .. Len(regLog) :
        /\ ~regLog[id].repeat
        /\ regLog[id].invoked = 1
        /\ tickLog.tick /\ ~tickLog.paused /\ tickLog.remaining = 0
        /\ ~TickBeganWith(id)
        /\ FiredCount(id) = 0

\* C10: a repeating registration is invoked once on every serviced tick that
\* begins with it active and is still active when the tick ends; after three
\* such ticks it has been invoked exactly three times.
C10_RepeatingFiresEveryTick ==
    \A id \in 1 .. Len(regLog) :
        regLog[id].repeat =>
            /\ regLog[id].invoked = regLog[id].ticks
            /\ regLog[id].ticks = 3 => regLog[id].invoked = 3
            /\ TickBeganWith(id) => (FiredCount(id) = 1 /\ id \in ActiveIds)

\* a repeating registration went through three serviced ticks
C10_Witness ==
    \E id \in 1 .. Len(regLog) :
        /\ regLog[id].repeat
        /\ regLog[id].ticks = 3
        /\ regLog[id].invoked = 3
        /\ TickBeganWith(id)
        /\ id \in ActiveIds

-----------------------------------------------------------------------------
(* Properties of the Ship, checked under SpecShip *)

\* the tentative position of a forward move from the logged pose
TentativeX == shipLog.posX + MoveDelta(Cos1000(shipLog.angle), -THRUST_DISTANCE)
TentativeY == shipLog.posY + MoveDelta(Sin1000(shipLog.angle), -THRUST_DISTANCE)

\* the tentative position touches or crosses an edge of the canvas; the
\* extent of the ship is its height on both axes
TouchesEdge ==
    \/ TentativeX <= 0
    \/ TentativeX + height >= CanvasWidth
    \/ TentativeY <= 0
    \/ TentativeY + height >= CanvasHeight

PoseAsLogged ==
    posX = shipLog.posX /\ posY = shipLog.posY /\ angle = shipLog.angle

\* C11: a forward move whose tentative position touches or crosses an edge
\* of the canvas is rejected: position and heading are what they were before
\* the call.
C11_RejectedMoveChangesNothing ==
    (shipLog.op = "forward" /\ TouchesEdge) => PoseAsLogged

\* a forward move was rejected at the top edge after the ship had moved sideways
C11_Witness ==
    /\ shipLog.op = "forward"
    /\ TouchesEdge
    /\ PoseAsLogged
    /\ TentativeY <= 0
    /\ posX # InitialPose.posX

\* C12: a committed rotation by d, of either sign and any magnitude, from a
\* heading h in [0, 360) yields the heading (h + d) mod 360, which lies in
\* [0, 360).  Checked under SpecTurn.
C12_RotationIsModulo360 ==
    (shipLog.op = "update" /\ shipLog.angle \in 0 .. 359) =>
        /\ angle = (shipLog.angle + shipLog.deg) % 360
        /\ angle \in 0 .. 359

-----------------------------------------------------------------------------
(* Properties of the steering, checked under SpecDrag *)

\* the pose the last operation began from
LoggedPose ==
    [posX |-> shipLog.posX, posY |-> shipLog.posY, scale |-> scale,
     angle |-> shipLog.angle]

\* the vector from the front of the ship to the target, in half units
DragDx == 2 * (shipLog.pos[1] - offsetLeft) - getFront(LoggedPose)[1]
DragDy == 2 * (shipLog.pos[2] - offsetTop) - getFront(LoggedPose)[2]

\* the rotation branch of the steering is not taken
DragAligned ==
    LET targetDeg == NormalizeDeg(Atan2Deg(DragDy, DragDx))
        delta == FoldDelta(targetDeg - shipLog.angle)
    IN  Abs(delta) >= 180 - TURN_ANGLE

\* the target is closer to the front than the thrust distance
DragClose ==
    DragDx * DragDx + DragDy * DragDy
        < (2 * PosScale * THRUST_DISTANCE) * (2 * PosScale * THRUST_DISTANCE)

\* C13: a steering invocation that finds the target aligned with the forward
\* direction and closer to the front than the minimum thrust distance
\* changes neither heading nor position, whatever the signs of dx and dy.
C13_AlignedAndCloseDoesNothing ==
    (shipLog.op = "onDrag" /\ DragAligned /\ DragClose) => PoseAsLogged

-----------------------------------------------------------------------------
(* Properties of the input handling of the EventLoop, checked under SpecLoop *)

\* the active registrations that hold the id of a listener
RegistrationsOf(listener) ==
    {j \in 1 .. Len(handlers) : handlers[j].id = listener.id}

\* the last step was a key-down for a code whose listeners were all armed
RepeatedKeyDown ==
    /\ evLog.kind = "keydown"
    /\ \E i \in 1 .. Len(evLog.keyListeners) : evLog.keyListeners[i].code = evLog.key
    /\ \A i \in 1 .. Len(evLog.keyListeners) :
          evLog.keyListeners[i].code = evLog.key => evLog.keyListeners[i].id # NullId

\* C14: a key listener has at most one active registration (exactly one while
\* it is armed, none otherwise), a key-down for a code whose listener is
\* already armed adds no registration, and the callback of an armed repeating
\* key listener runs exactly once on a serviced tick.
C14_OneRegistrationPerKeyListener ==
    /\ \A i \in 1 .. Len(keyListeners) :
          Cardinality(RegistrationsOf(keyListeners[i]))
              = (IF keyListeners[i].id = NullId THEN 0 ELSE 1)
    /\ \A j \in 1 .. Len(handlers) :
          handlers[j].type = KEY =>
              Cardinality({i \in 1 .. Len(keyListeners) :
                              keyListeners[i].id = handlers[j].id}) = 1
    /\ RepeatedKeyDown => (handlers = evLog.handlers /\ keyListeners = evLog.keyListeners)
    /\ \A j \in 1 .. Len(tickLog.handlers) :
          (tickLog.handlers[j].type = KEY /\ TickBeganWith(tickLog.handlers[j].id)) =>
              FiredCount(tickLog.handlers[j].id) = 1

\* a second key-down for a held key, one registration still
C14_Witness ==
    /\ RepeatedKeyDown
    /\ Len(handlers) = 1
    /\ handlers[1].type = KEY
    /\ handlers[1].code = evLog.key
    /\ handlers[1].repeat

-----------------------------------------------------------------------------
(* Properties of the input handling with registered listeners, checked      *)
(* under SpecInput                                                          *)

\* C15: after a key-up for code k no active key registration with code k
\* remains, however many key listeners are registered on k, and the id of
\* every key listener on k is cleared, so that the next key-down re-arms it.
C15_KeyUpDisarmsEveryListener ==
    evLog.kind = "keyup" =>
        /\ \A j \in 1 .. Len(handlers) :
              ~(handlers[j].type = KEY /\ handlers[j].code = evLog.key)
        /\ \A i \in 1 .. Len(keyListeners) :
              keyListeners[i].code = evLog.key => keyListeners[i].id = NullId

\* the last event came with exactly one contact point: a mouse event, or a
\* touch event with one touch
SingleContact ==
    evLog.ev.mouse \/ Len(evLog.ev.touches) = 1

\* the point of a single-contact event
EventPoint ==
    IF evLog.ev.mouse THEN evLog.ev.client ELSE evLog.ev.touches[1]

\* the point lies within the bounding rectangle of the canvas, edges included
InsideCanvas(p) ==
    /\ p[1] >= offsetLeft /\ p[1] <= offsetLeft + CanvasWidth
    /\ p[2] >= offsetTop /\ p[2] <= offsetTop + CanvasHeight

\* the drag listeners that were not armed when the last event arrived
UnarmedBefore ==
    {i \in 1 .. Len(evLog.mouseListeners) : evLog.mouseListeners[i].id = NullId}

\* C16: a single-contact press inside the canvas sets the tracked position to
\* the press point and arms every drag listener that is not armed, leaving
\* the armed ones and all earlier registrations as they are; a press outside
\* the canvas changes neither the tracked position nor the registrations.
C16_PressArmsInsideOnly ==
    (evLog.kind = "press" /\ SingleContact) =>
        IF InsideCanvas(EventPoint)
        THEN /\ curPos = EventPoint
             /\ \A i \in 1 .. Len(mouseListeners) :
                   /\ mouseListeners[i].id # NullId
                   /\ Cardinality(RegistrationsOf(mouseListeners[i])) = 1
                   /\ i \notin UnarmedBefore =>
                         mouseListeners[i] = evLog.mouseListeners[i]
             /\ Len(handlers) = Len(evLog.handlers) + Cardinality(UnarmedBefore)
             /\ SubSeq(handlers, 1, Len(evLog.handlers)) = evLog.handlers
             /\ keyListeners = evLog.keyListeners
        ELSE /\ curPos = evLog.curPos
             /\ handlers = evLog.handlers
             /\ mouseListeners = evLog.mouseListeners
             /\ keyListeners = evLog.keyListeners

\* a touch inside the canvas armed the mouse listener and the touch listener
C16_Witness ==
    /\ evLog.kind = "press"
    /\ ~evLog.ev.mouse
    /\ SingleContact
    /\ InsideCanvas(EventPoint)
    /\ curPos = EventPoint
    /\ Cardinality(UnarmedBefore) = 2
    /\ Len(handlers) = Len(evLog.handlers) + 2

\* C17: a move event changes the tracked position only when a drag is in
\* progress and the event point is inside the canvas, and then the tracked
\* position is the event point; otherwise the tracked position stays as it
\* was.  A move never changes the registrations.
C17_MoveTracksInsideOnly ==
    evLog.kind = "move" =>
        /\ handlers = evLog.handlers
        /\ keyListeners = evLog.keyListeners
        /\ mouseListeners = evLog.mouseListeners
        /\ IF evLog.curPos # NullPos /\ SingleContact /\ InsideCanvas(EventPoint)
           THEN curPos = EventPoint
           ELSE curPos = evLog.curPos

\* a drag in progress followed the pointer to another point of the canvas
C17_Witness ==
    /\ evLog.kind = "move"
    /\ evLog.curPos # NullPos
    /\ SingleContact
    /\ InsideCanvas(EventPoint)
    /\ curPos = EventPoint
    /\ curPos # evLog.curPos
    /\ handlers # <<>>

\* the drag registrations among a list of handlers
DragRegistrations(hs) ==
    {j \in 1 .. Len(hs) : hs[j].type = MOUSE \/ hs[j].type = TOUCH}

\* the key registrations of a list of handlers, in order
RECURSIVE KeyRegistrations(_)
KeyRegistrations(hs) ==
    IF hs = <<>> THEN <<>>
    ELSE IF hs[1].type = KEY THEN <<hs[1]>> \o KeyRegistrations(Tail(hs))
    ELSE KeyRegistrations(Tail(hs))

\* C18: after a release or touch-end the tracked position is none, no mouse
\* or touch registration is active and every drag listener is disarmed,
\* while the key registrations and the key listeners are what they were.
C18_ReleaseDisarmsDrag ==
    evLog.kind = "release" =>
        /\ curPos = NullPos
        /\ DragRegistrations(handlers) = {}
        /\ \A i \in 1 .. Len(mouseListeners) : mouseListeners[i].id = NullId
        /\ handlers = KeyRegistrations(evLog.handlers)
        /\ keyListeners = evLog.keyListeners

\* a release ended a drag while a key was held
C18_Witness ==
    /\ evLog.kind = "release"
    /\ evLog.curPos # NullPos
    /\ DragRegistrations(evLog.handlers) # {}
    /\ KeyRegistrations(evLog.handlers) # <<>>
    /\ curPos = NullPos
    /\ handlers = KeyRegistrations(evLog.handlers)

-----------------------------------------------------------------------------
(* Properties of the touch handling of the captcha page, checked under Spec *)

\* the last event was a touch-start with more than one contact point
MultiTouchPress ==
    evLog.kind = "press" /\ ~evLog.ev.mouse /\ Len(evLog.ev.touches) > 1

\* C19: a touch-start with more than one contact point leaves the tracked
\* position, the active registrations and the pause state of the loop as
\* they were.
C19_MultiTouchIsNoEvent ==
    MultiTouchPress =>
        /\ curPos = evLog.curPos
        /\ handlers = evLog.handlers
        /\ paused = tickLog.paused
        /\ resumeTimeRemaining = tickLog.remaining

-----------------------------------------------------------------------------
(* Order of the callbacks of a tick, checked under SpecInput *)

\* the last step was a tick that the loop serviced
ServicedTick ==
    tickLog.tick /\ ~tickLog.paused /\ tickLog.remaining = 0

\* C20: a serviced tick invokes every tick callback, in the order of
\* registration, before any key or drag handler, and then the handlers in
\* the order in which they were armed.
C20_TickCallbacksThenHandlers ==
    ServicedTick =>
        LET nT == Len(tickLog.tickListeners)
            nH == Len(tickLog.handlers)
        IN  /\ Len(fired) = nT + nH
            /\ \A i \in 1 .. nT :
                  fired[i].kind = "tick" /\ fired[i].fn = tickLog.tickListeners[i]
            /\ \A j \in 1 .. nH :
                  /\ fired[nT + j].kind = "handler"
                  /\ fired[nT + j].id = tickLog.handlers[j].id
            /\ \A j \in 1 .. nH : \A k \in 1 .. nH :
                  j < k => fired[nT + j].id < fired[nT + k].id

\* a serviced tick called two tick callbacks and then handlers armed by
\* different events
C20_Witness ==
    /\ ServicedTick
    /\ Len(tickLog.tickListeners) = 2
    /\ tickLog.tickListeners[1] # tickLog.tickListeners[2]
    /\ Len(tickLog.handlers) >= 3
    /\ Len(fired) = 2 + Len(tickLog.handlers)
    /\ fired[1].fn = "cb" /\ fired[2].fn = "cb2"
    /\ fired[3].kind = "handler"
    /\ \E j \in 1 .. Len(tickLog.handlers) : tickLog.handlers[j].type = KEY
    /\ \E j \in 1 .. Len(tickLog.handlers) : tickLog.handlers[j].type = MOUSE

-----------------------------------------------------------------------------
(* The dispatch pass of a tick, checked under SpecInput *)

\* the ids of the handlers active when the last tick began; the tick
\* callbacks of these loops leave the handlers alone, so that this is also
\* the list the dispatch pass copies
SnapshotIds == {tickLog.handlers[i].id : i \in 1 .. Len(tickLog.handlers)}

\* the non-repeating handler at position i of the copy is removed from the
\* live list while a later handler of the copy is still to be called
RemovedMidPass(i) ==
    /\ i < Len(tickLog.handlers)
    /\ ~tickLog.handlers[i].repeat

\* C21: the handlers invoked by a serviced tick are exactly those active when
\* its dispatch pass begins, each of them once, whatever the pass removes
\* from the live list while it runs.
C21_PassCallsSnapshotOnce ==
    ServicedTick =>
        /\ \A id \in SnapshotIds : FiredCount(id) = 1
        /\ \A i \in 1 .. Len(fired) :
              fired[i].kind = "handler" => fired[i].id \in SnapshotIds
        /\ ActiveIds = {tickLog.handlers[i].id :
                           i \in {j \in 1 .. Len(tickLog.handlers) :
                                      tickLog.handlers[j].repeat}}

\* a serviced tick removed a non-repeating handler from the live list and
\* went on to call the handlers after it
C21_Witness ==
    /\ ServicedTick
    /\ \E i \in 1 .. Len(tickLog.handlers) : RemovedMidPass(i)
    /\ Len(handlers) < Len(tickLog.handlers)
    /\ \A id \in SnapshotIds : FiredCount(id) = 1

-----------------------------------------------------------------------------
(* Ship.reset, checked under SpecShip *)

-----------------------------------------------------------------------------
(* The judgement of a round, checked under Spec *)

\* the three inputs hold values, and the first two add up to the third
SumHolds(eq) ==
    /\ \A i \in 1 .. 3 : eq[i] # <<>>
    /\ parseInt(eq[1]) + parseInt(eq[2]) = parseInt(eq[3])

\* the three inputs hold values, and the first two do not add up to the third
SumFails(eq) ==
    /\ \A i \in 1 .. 3 : eq[i] # <<>>
    /\ parseInt(eq[1]) + parseInt(eq[2]) # parseInt(eq[3])

\* the step posts "success" to the host frame
SuccessSignalled ==
    posted' > posted

\* the step puts up the "Try Again" overlay
FailureSignalled ==
    /\ overlay' # overlay
    /\ overlay' = [title |-> "Try Again", shown |-> TRUE]

\* C23: a round is judged when the third value is collected: the step that
\* collects it signals success iff the first two values add up to the third
\* and failure iff they do not, and a step that leaves the equation with
\* fewer than three values signals neither.
C23_JudgedOnThirdValue ==
    [][/\ SuccessSignalled <=> (inputs' # inputs /\ SumHolds(inputs'))
       /\ FailureSignalled <=> (inputs' # inputs /\ SumFails(inputs'))
       /\ inputs'[3] = <<>> => (~SuccessSignalled /\ ~FailureSignalled)]_vars

\* a round failed on the three values of the additive triple, the sum having
\* been collected first
C23_Witness ==
    /\ overlay = [title |-> "Try Again", shown |-> TRUE]
    /\ SumFails(inputs)
    /\ parseInt(inputs[1]) = parseInt(inputs[2]) + parseInt(inputs[3])
    /\ posted = 0

-----------------------------------------------------------------------------
(* The example of the README, checked under SpecDefault *)

\* C24: for N = 6 and M = 100 the acceptance test accepts 52, 27, 1, 15, 18,
\* 16: no three of its elements sum to 100 or more, 1 + 15 = 16 is its only
\* additive triple, and both checks of the generator pass on it.
C24_ReadmeExampleAccepted ==
    (genPc = "check" /\ arr = ReadmeExample) =>
        /\ arrayLength = 6 /\ maxSum = 100
        /\ \A t \in PositionTriples :
              \A i \in t : \A j \in t \ {i} : \A k \in t \ {i, j} :
                  arr[i] + arr[j] + arr[k] < 100
        /\ {t \in PositionTriples : Additive(t)} = {{3, 4, 6}}
        /\ arr[3] + arr[4] = arr[6]
        /\ SumOk(arr, maxSum)
        /\ CountAccepts(arr)

\* the generator returned the example
C24_Witness ==
    /\ Returned
    /\ arr = ReadmeExample
    /\ arrayLength = DEFAULT_NUM_ASTEROIDS
    /\ maxSum = MAX_SUM

-----------------------------------------------------------------------------
(* Steering during a drag, checked under Spec *)

\* number of calls of Captcha.onDrag in the last step
DragCalls ==
    Cardinality({i \in 1 .. Len(fired) : fired[i].fn = "onDrag"})

\* the loop services the next tick while one press is held inside the
\* canvas and no key is down
SingleDragInProgress ==
    /\ ~paused
    /\ resumeTimeRemaining = 0
    /\ curPos # NullPos
    /\ DragRegistrations(handlers) # {}
    /\ KeyRegistrations(handlers) = <<>>

\* C25: while a single drag is in progress the steering runs exactly once
\* per serviced tick, so that one tick turns the heading by at most one
\* TURN_ANGLE and moves the ship by at most one THRUST_DISTANCE.
C25_OneSteeringPerTick ==
    [][(SingleDragInProgress /\ tickLog'.tick /\ numbers' = numbers) =>
          /\ DragCalls' = 1
          /\ Abs(angle' - angle) <= TURN_ANGLE
          /\ Abs(posX' - posX) <= PosScale * THRUST_DISTANCE
          /\ Abs(posY' - posY) <= PosScale * THRUST_DISTANCE]_vars

-----------------------------------------------------------------------------
(* Steering to the front point itself, checked under SpecDrag *)

\* C26: a steering invocation whose target is the front point of the ship
\* (dx = 0 and dy = 0) rotates nothing and moves nothing, whatever the
\* heading.
C26_TargetAtFrontDoesNothing ==
    (shipLog.op = "onDrag" /\ DragDx = 0 /\ DragDy = 0) => PoseAsLogged

-----------------------------------------------------------------------------
(* When the active registrations change, checked under SpecInput *)

\* the last step was an event of the document, not a tick of the timer
InputEvent ==
    evLog.kind \in {"keydown", "keyup", "press", "move", "release"}

\* the handlers that were active before the last step and still are
Kept ==
    SelectSeq(evLog.handlers, LAMBDA h : h.id \in ActiveIds)

\* C27 as stated: a key, pointer or touch event leaves the active
\* registrations as they were; only a tick changes them.
C27_EventsLeaveRegistrationsAlone ==
    InputEvent => handlers = evLog.handlers

\* C27 amended: an event changes the active registrations at once, and
\* invokes nothing.  A key-down or press appends registrations to those
\* active before it, a key-up or release only removes registrations, a move
\* changes none; a tick only removes registrations.
C27_EventsChangeRegistrationsAtOnce ==
    /\ InputEvent => fired = <<>>
    /\ evLog.kind \in {"keydown", "press"} =>
          /\ Len(handlers) >= Len(evLog.handlers)
          /\ SubSeq(handlers, 1, Len(evLog.handlers)) = evLog.handlers
    /\ evLog.kind \in {"keyup", "release", "tick"} => handlers = Kept
    /\ evLog.kind = "move" => handlers = evLog.handlers

\* key-downs armed two registrations and a key-up took one out again, all
\* before any tick serviced a handler
C27_Witness ==
    /\ evLog.kind = "keyup"
    /\ Len(evLog.handlers) >= 2
    /\ Len(handlers) < Len(evLog.handlers)
    /\ SubSeq(evLog.handlers, 1, 1) # SubSeq(handlers, 1, 1)
    /\ runs = 0

-----------------------------------------------------------------------------
(* The rounds of the shell game, checked under SpecShell *)

\* the last step posted "success" to the host frame
ShellSuccessSent ==
    shell.posted > shellLog.posted

\* the last step was a tick that found the reveal of a can without the beans
\* finished
WrongPickJudged ==
    /\ shellLog.op = "tick"
    /\ shellLog.idle
    /\ shellLog.revealing # NullCan
    /\ ~containsBeans(shellLog.revealing)

\* the last step was a click that found the failed state set
ClickAfterWrongPick ==
    shellLog.op = "click" /\ shellLog.failed

\* success is sent only in round NUM_ROUNDS, on the reveal of the can with the
\* beans, after three right picks and no wrong one since the last reset; a
\* wrong pick sets the failed state
SuccessOnlyAfterThreeRightPicks ==
    /\ ShellSuccessSent =>
          /\ shellLog.op = "tick"
          /\ shellLog.round = 3
          /\ containsBeans(shellLog.revealing)
          /\ shell.correct = 3
          /\ shell.wrong = 0
    /\ WrongPickJudged => (shell.failed /\ ~ShellSuccessSent)
    /\ shell.round \in 0 .. 3

-----------------------------------------------------------------------------
(* One action per steering invocation, checked under SpecDrag *)

\* the folded difference between the direction of the target and the heading
\* the last steering invocation began with
DragDelta ==
    FoldDelta(NormalizeDeg(Atan2Deg(DragDy, DragDx)) - shipLog.angle)

\* the last operation left the position as it was
PositionAsLogged ==
    posX = shipLog.posX /\ posY = shipLog.posY

\* C29: a steering invocation does one thing at most.  Its delta lies in
\* (-180, 180]; if |delta| < 178 it turns the heading by one turn step, by +2
\* if delta < 0 and by -2 otherwise (modulo 360), and leaves the position; a
\* forward move happens only if |delta| >= 178, and leaves the heading.
C29_TurnOrMoveNeverBoth ==
    shipLog.op = "onDrag" =>
        /\ DragDelta \in -179 .. 180
        /\ Abs(DragDelta) < 178 =>
              /\ PositionAsLogged
              /\ angle # shipLog.angle
              /\ angle \in 0 .. 360
              /\ DragDelta < 0 => (angle - (shipLog.angle + 2)) % 360 = 0
              /\ DragDelta >= 0 => (angle - (shipLog.angle - 2)) % 360 = 0
        /\ Abs(DragDelta) >= 178 => angle = shipLog.angle
        /\ ~PositionAsLogged => (Abs(DragDelta) >= 178 /\ angle = shipLog.angle)

\* the steering turned the ship away from the constructed heading and then,
\* aligned with its target, moved it forward
C29_Witness ==
    /\ shipLog.op = "onDrag"
    /\ ~PositionAsLogged
    /\ angle = shipLog.angle
    /\ angle # INITIAL_ANGLE
    /\ Abs(DragDelta) >= 178

-----------------------------------------------------------------------------
(* Convergence of the steering, checked under SpecSteer *)

\* C30: with the target direction held constant, the steering ticks turn the
\* heading in one direction only; the ticks that turn it number 89 at most,
\* so that the 90th tick at the latest finds |delta| >= 178; and once a tick
\* has found that, no later tick turns the heading.
C30_TurnsOneWayThenHolds ==
    steerLog.steering =>
        /\ Cardinality(steerLog.turns) <= 1
        /\ steerLog.ticks <= 89
        /\ steerLog.ticks = 89 => SteerAligned
        /\ ~steerLog.turnedAfter
        /\ steerLog.aligned => SteerAligned

\* the longest turn: 89 ticks turned the ship, all to the same side, the next
\* one found it aligned and moved it forward
C30_Witness ==
    /\ steerLog.steering
    /\ steerLog.ticks = 89
    /\ steerLog.aligned
    /\ Cardinality(steerLog.turns) = 1
    /\ shipLog.op = "steer"
    /\ ~PositionAsLogged

-----------------------------------------------------------------------------
(* Properties of Ship.update, checked under SpecUpdate *)

\* the tentative position of the logged update fails the boundary test
UpdateTouchesEdge ==
    \/ shipLog.posX + shipLog.pos[1] <= 0
    \/ shipLog.posX + shipLog.pos[1] + height >= CanvasWidth
    \/ shipLog.posY + shipLog.pos[2] <= 0
    \/ shipLog.posY + shipLog.pos[2] + height >= CanvasHeight

\* position and heading of the logged update are both committed
UpdateCommitted ==
    /\ posX = shipLog.posX + shipLog.pos[1]
    /\ posY = shipLog.posY + shipLog.pos[2]
    /\ (angle - shipLog.angle - shipLog.deg) % 360 = 0

\* C31: an update that carries a displacement and a rotation is all or
\* nothing: if its tentative position fails the boundary test, position and
\* heading are what they were, and otherwise both are committed.
C31_UpdateIsAllOrNothing ==
    shipLog.op = "updateBoth" =>
        IF UpdateTouchesEdge THEN PoseAsLogged ELSE UpdateCommitted

\* an update with a displacement and a rotation was rejected at an edge, the
\* ship not being where it was constructed
C31_Witness ==
    /\ shipLog.op = "updateBoth"
    /\ shipLog.pos[1] # 0
    /\ shipLog.deg # 0
    /\ UpdateTouchesEdge
    /\ PoseAsLogged
    /\ posX # InitialPose.posX

-----------------------------------------------------------------------------
(* The ship stays clear of the edges, checked under SpecPose *)

\* the ship, whose extent is its height on both axes, lies strictly inside
\* the canvas
InsideArena ==
    /\ 0 < posX
    /\ posX + height < CanvasWidth
    /\ 0 < posY
    /\ posY + height < CanvasHeight

\* the last operation was a rotation on its own
RotationOnly ==
    shipLog.op \in {"rotateLeft", "rotateRight"}

\* C32: in every state reached by construction, reset, rotations, forward
\* moves and steering the committed position lies strictly inside the canvas,
\* and a rotation on its own is committed: the position stays and the heading
\* turns by the turn angle.
C32_RotationNeverRejected ==
    /\ InsideArena
    /\ RotationOnly =>
          /\ posX = shipLog.posX
          /\ posY = shipLog.posY
          /\ (angle - shipLog.angle - shipLog.deg) % 360 = 0
          /\ angle # shipLog.angle

\* a rotation was committed with the ship a tenth of a pixel from the top
\* edge, where a forward move had just been possible
C32_Witness ==
    /\ RotationOnly
    /\ angle # shipLog.angle
    /\ posY = 1

-----------------------------------------------------------------------------
(* pause() during the countdown, checked under SpecLoop *)

\* the step was a call of pause() made while the countdown was running
PausedMidResume ==
    /\ evLog.kind = "pause"
    /\ ~tickLog.paused
    /\ tickLog.remaining > 0

\* C33: pause() called while the loop is resuming discards what is left of
\* the countdown, and a paused loop never has a countdown; a tick leaves a
\* paused loop paused and invokes nothing; only resume() ends the pause, and
\* it starts a whole debounce window.
C33_PauseDiscardsCountdown ==
    /\ paused => resumeTimeRemaining = 0
    /\ PausedMidResume => paused
    /\ (tickLog.paused /\ tickLog.tick) => (paused /\ fired = <<>>)
    /\ (tickLog.paused /\ ~paused) =>
          /\ evLog.kind = "resume"
          /\ resumeTimeRemaining = RESUME_INTERVAL

\* pause() was called after one tick of the countdown, a tick callback being
\* registered
C33_Witness ==
    /\ PausedMidResume
    /\ tickLog.remaining = RESUME_INTERVAL - EVENT_INTERVAL
    /\ paused
    /\ resumeTimeRemaining = 0
    /\ tickListeners # <<>>

\* a paused loop was resumed: the countdown is whole again
ResumedFromPause ==
    /\ tickLog.paused
    /\ ~paused
    /\ resumeTimeRemaining = RESUME_INTERVAL

-----------------------------------------------------------------------------
(* Termination of generateSpecialArray, checked under SpecGenFair *)

\* the 3-element sets of positions of an array of n elements
TriplesOf(n) ==
    {t \in SUBSET (1 .. n) : Cardinality(t) = 3}

\* the array a satisfies both constraints for the bound m
SatisfiesBoth(a, m) ==
    /\ \A t \in TriplesOf(Len(a)) :
          \E i \in t : \E j \in t \ {i} : \E k \in t \ {i, j} : a[i] + a[j] + a[k] < m
    /\ Cardinality({t \in TriplesOf(Len(a)) :
          \E i \in t : \E j \in t \ {i} : \E k \in t \ {i, j} : a[i] + a[j] = a[k]}) = 1

\* some array of n values of 1 .. m - 1 (of the value 1 for m = 1) satisfies
\* both constraints; the constraints do not depend on the order of the
\* values, so the arrays in ascending order decide it
Feasible(n, m) ==
    \E a \in [1 .. n -> 1 .. (IF m > 1 THEN m - 1 ELSE 1)] :
        /\ \A i \in 1 .. (n - 1) : a[i] <= a[i + 1]
        /\ SatisfiesBoth(a, m)

\* the parameters <<N, M>>, M from m on, that can be satisfied
RECURSIVE FeasibleFrom(_, _)
FeasibleFrom(n, m) ==
    IF n > MaxLen THEN {}
    ELSE IF m > MaxSumBound THEN FeasibleFrom(n + 1, 1)
    ELSE (IF Feasible(n, m) THEN {<<n, m>>} ELSE {}) \cup FeasibleFrom(n, m + 1)

FeasibleParams ==
    FeasibleFrom(MIN_NUM_ASTEROIDS, 1)

\* the draws are fair: if arrays are drawn again and again, an array that
\* passes both checks is drawn again and again (as it is when every candidate
\* is drawn infinitely often and one of them passes)
FairDraws ==
    []<>(genPc = "check") => []<>(genPc = "check" /\ SatisfiesBoth(arr, maxSum))

\* C34: generate(N, M) returns only an array that passes both checks; for
\* parameters for which no array satisfies both constraints, N = 3 with
\* M <= 4 among them, it never returns; for parameters for which one exists
\* every call returns in the end, provided the draws are fair.
C34_ReturnsExactlyWhenFeasible ==
    /\ [](Returned => SatisfiesBoth(arr, maxSum))
    /\ []((arrayLength = MIN_NUM_ASTEROIDS /\ maxSum <= 4) => ~Returned)
    /\ [](<<arrayLength, maxSum>> \notin FeasibleParams => ~Returned)
    /\ FairDraws =>
          ((genPc = "draw" /\ <<arrayLength, maxSum>> \in FeasibleParams) ~> Returned)

\* the call with the smallest parameters that can be satisfied has returned
C34_Witness ==
    /\ Returned
    /\ arrayLength = MIN_NUM_ASTEROIDS
    /\ maxSum = 5

\* a pass of the loop is under way for parameters no array satisfies
InfeasiblePass ==
    /\ genPc = "check"
    /\ <<arrayLength, maxSum>> \notin FeasibleParams
    /\ maxSum > 4

-----------------------------------------------------------------------------
(* pause() in the middle of a tick, checked under Spec *)

\* the step was a serviced tick in which a callback called pause()
PausedMidTick ==
    /\ tickLog.tick
    /\ \E i \in 1 .. Len(calls) : calls[i] = "pause"

\* C35: on a tick in which a callback calls pause(), no handler is invoked:
\* the handlers come after the tick listeners, the collision handling among
\* them, so this is the least of what the rest of the tick must not do.
C35_PauseEndsTheTick ==
    PausedMidTick =>
        \A i \in 1 .. Len(fired) : fired[i].kind # "handler"

-----------------------------------------------------------------------------
(* The position handed to a drag callback, checked under SpecLoop *)

\* the invocations of the last step that were made for a mouse or touch
\* registration
DragInvocations ==
    {i \in 1 .. Len(fired) :
        /\ fired[i].kind = "handler"
        /\ \E j \in DragRegistrations(tickLog.handlers) :
              tickLog.handlers[j].id = fired[i].id}

\* C36: a mouse or touch registration is active only while a tracked position
\* is set, and every invocation of a drag callback is handed a tracked
\* position, whatever presses, moves, releases and calls of pause() and
\* resume() came before.
C36_DragCallbackGetsPosition ==
    /\ DragRegistrations(handlers) # {} => curPos # NullPos
    /\ \A i \in DragInvocations : fired[i].pos # NullPos

\* a drag callback was invoked with the tracked position on the first
\* serviced tick after the loop, paused during the drag, was resumed
C36_Witness ==
    /\ tickLog.tick
    /\ tickLog.resumeTicks = RESUME_INTERVAL \div EVENT_INTERVAL
    /\ DragInvocations # {}
    /\ \A i \in DragInvocations : fired[i].pos = curPos
    /\ curPos # NullPos

-----------------------------------------------------------------------------
(* After the completion notification, checked under Spec *)

\* the completion notification has been sent
Completed ==
    posted > 0

\* C37: once the completion notification has been sent the loop is paused
\* with no countdown and stays so: no key, pointer or touch event resumes it,
\* and a tick that begins after the completion invokes no callback.
C37_PausedForEverOnceCompleted ==
    Completed =>
        /\ done
        /\ paused
        /\ resumeTimeRemaining = 0
        /\ \A i \in 1 .. Len(calls) : calls[i] # "resume"
        /\ (tickLog.tick /\ tickLog.paused) => fired = <<>>

\* a click inside the play area after the completion left the loop paused
C37_Witness ==
    /\ Completed
    /\ evLog.kind = "press"
    /\ evLog.ev = MouseEvent(PointAbove)
    /\ tickLog.paused
    /\ paused
    /\ overlay = [title |-> "Success", shown |-> TRUE]

\* a tick after the completion invoked nothing
TickAfterCompletion ==
    /\ Completed
    /\ tickLog.tick
    /\ tickLog.paused
    /\ fired = <<>>

-----------------------------------------------------------------------------
(* The overlays and the pause, checked under Spec *)

\* the overlay of the start is showing: no click inside the play area yet
StartOverlayShowing ==
    overlay = [title |-> "Solve the Equation", shown |-> TRUE]

\* C38: while an overlay is showing the loop is paused, so that no key or
\* drag callback moves the ship; in particular, while the overlay of the
\* start is showing, that is before the first click inside the play area, no
\* handler is invoked and the ship is where it was constructed, heading as
\* constructed.
C38_NothingMovesBeforeFirstClick ==
    StartOverlayShowing =>
        /\ \A i \in 1 .. Len(fired) : fired[i].kind # "handler"
        /\ Pose = InitialPose

-----------------------------------------------------------------------------
(* The equation when the loop is serviced, checked under Spec *)

\* the three fields of the equation hold a value each
HoldsThreeValues ==
    \A i \in 1 .. 3 : inputs[i] # <<>>

\* C39: a tick is serviced only if the loop is not paused, and whenever the
\* loop is not paused the equation holds fewer than three values: an equation
\* of three values is solved, and play is over, or it is failed, and the loop
\* is paused until the click inside the play area that clears it.
C39_FewerThanThreeWhenServiced ==
    /\ ~paused => ~HoldsThreeValues
    /\ HoldsThreeValues => (SumHolds(inputs) => done)
    /\ (tickLog.tick /\ fired # <<>>) => ~tickLog.paused

\* after a failure and a click inside the play area the countdown has run
\* out and a tick is serviced, the equation being empty
C39_Witness ==
    /\ tickLog.tick
    /\ tickLog.resumeTicks = RESUME_INTERVAL \div EVENT_INTERVAL
    /\ fired # <<>>
    /\ overlay = [title |-> "Try Again", shown |-> FALSE]
    /\ inputs = <<<<>>, <<>>, <<>>>>

-----------------------------------------------------------------------------
(* The judgement of a pick, checked under SpecShell *)

\* the step was a click that came while a pick awaited its judgement by the
\* tick handler
ClickWhilePickPending ==
    /\ shellLog.op = "click"
    /\ shellLog.revealing # NullCan

\* C40: a click that comes while a pick awaits its judgement is not accepted
\* as a further pick: the can under judgement stays the same and no reveal is
\* added to the animations, whether the reveal of the pick is still running
\* or has just run out.
C40_NoPickBeforeJudgement ==
    ClickWhilePickPending =>
        /\ shell.revealing = shellLog.revealing
        /\ shellLog.idle => shell.animations = <<>>

====
